---- MODULE Spec2Model ----
(***************************************************************************)
(* The persistent state store of the moon skill (lib/state.mjs): one JSON  *)
(* document per state directory, read with loadState and written with      *)
(* saveState (write state.json.tmp, rename over state.json), the mutators  *)
(* built on them, and the commands that drive the journal.                 *)
(*                                                                         *)
(* JavaScript values.  A field that holds a number, null, undefined or NaN *)
(* is a tagged record (Num(n), Null, Undefined, NaN).  A field that always *)
(* holds a string or a Date.now() reading is a plain string or integer.    *)
(* An object is a function from its keys; an absent key reads as           *)
(* undefined.  The id `j_${t}` is the integer t.                           *)
(***************************************************************************)
EXTENDS Integers, Sequences, FiniteSets, TLC

VARIABLES
    fs,     \* the state directory: a set of inodes [names, fds, data, readable]
    now,    \* the last reading of Date.now()
    ret,    \* the last call made and what it returned
    calls,  \* the number of calls made so far
    scanLog,\* every record addScanRecord has pushed, in the order of the calls
    tagged, \* the <<name, mint>> of every addNarrative call made
    proc,   \* the processes that run concurrently: where each is in its call
    scan,   \* the scan command: where it is, what it has fetched and found
    run     \* the other asynchronous call under way: where it is, what it has done

vars == <<fs, now, ret, calls, scanLog, tagged, proc, scan, run>>

\* ------------------------------------------------------------------ bounds
MaxClock == 1
MaxCalls == 2
MaxJournal == 2
MaxScans == 52
MaxProcs == 2

\* ------------------------------------------------------- JavaScript values
Num(n) == [t |-> "num", v |-> n]
Null == [t |-> "null", v |-> 0]
Undefined == [t |-> "undefined", v |-> 0]
NaN == [t |-> "NaN", v |-> 0]

\* keys whose value is never undefined or NaN in this model: strings,
\* Date.now() readings, booleans, arrays of strings
PlainKeys == {"id", "type", "mint", "status", "timestamp", "addedAt",
              "lastCheck", "trackedAt", "conditionId", "outcome", "journalId",
              "resolvedOutcome", "resolvedAt", "won", "topMints"}

\* o.k for a tagged key: an absent key reads as undefined
Get(o, k) == IF k \in DOMAIN o THEN o[k] ELSE Undefined

\* the truth value of a tagged value
Truthy(v) == v.t = "num" /\ v.v # 0

\* { ...a, ...b }
Spread(a, b) == b @@ a

\* the keys of the empty object literal
EmptyObject == <<>>

\* ------------------------------------------------------------ DEFAULT_STATE
DEFAULT_CONFIG ==
    [goalUsd |-> Num(1000000), defaultRiskPct |-> Num(2),
     defaultStopLossPct |-> Num(20), lastWatchCheck |-> Num(0)]

DEFAULT_STATE ==
    [version |-> Num(1), config |-> DEFAULT_CONFIG, journal |-> <<>>,
     watchlist |-> <<>>, narratives |-> EmptyObject, scanHistory |-> <<>>,
     polymarketBets |-> <<>>]

ArrayKeys == {"journal", "watchlist", "scanHistory", "polymarketBets"}

\* the order in which the keys of a document are written: the order of the
\* spread in loadState (DEFAULT_STATE's keys, then the others)
KeyOrder == <<"version", "config", "journal", "watchlist", "narratives",
              "scanHistory", "polymarketBets", "extra">>

\* ---------------------------------------------------- JSON.stringify / parse
\* what JSON.stringify keeps of an object of scalars: a property whose value
\* is undefined is left out, NaN is written as null
\* a serialiser that leaves out null properties as well
JsonObjectDropNull(o) ==
    [k \in {x \in DOMAIN o : x \in PlainKeys \/ o[x] \notin {Undefined, Null}} |->
        IF k \in PlainKeys THEN o[k]
        ELSE IF o[k] = NaN THEN Null ELSE o[k]]

JsonObject(o) ==
    [k \in {x \in DOMAIN o : x \in PlainKeys \/ o[x] # Undefined} |->
        IF k \in PlainKeys THEN o[k]
        ELSE IF o[k] = NaN THEN Null ELSE o[k]]

\* a line that holds a property (k its key, v its value) or an array element
\* (k = ","), and a line of punctuation: "{", "}", "[" and "]" with the key
\* of the array, the literal null
Line(k, v) == [k |-> k, v |-> v]
Mark(k, name) == [k |-> k, v |-> [of |-> name]]

\* the lines of the elements of an array
ElementLines(arr) == [i \in 1..Len(arr) |-> Line(",", JsonObject(arr[i]))]

\* the lines of one top-level property
PropertyLines(state, k) ==
    IF k \notin DOMAIN state THEN <<>>
    ELSE IF k \in ArrayKeys
         THEN <<Mark("[", k)>> \o ElementLines(state[k]) \o <<Mark("]", k)>>
    ELSE IF k = "narratives" THEN <<Line(k, state[k])>>
    ELSE IF k \in {"config"} THEN <<Line(k, JsonObject(state[k]))>>
    ELSE <<Line(k, state[k])>>

RECURSIVE BodyLines(_, _)
BodyLines(state, i) ==
    IF i > Len(KeyOrder) THEN <<>>
    ELSE PropertyLines(state, KeyOrder[i]) \o BodyLines(state, i + 1)

\* JSON.stringify(state, null, 2): the text as a sequence of lines
Stringify(state) == <<Mark("{", "")>> \o BodyLines(state, 1) \o <<Mark("}", "")>>

ParseError == [ok |-> FALSE, null |-> FALSE, val |-> EmptyObject]

\* reads the properties from line i on; obj is the object read so far.  An
\* array runs from its "[" line over element lines to the "]" line of its key
RECURSIVE ParseFrom(_, _, _)
ParseFrom(text, i, obj) ==
    IF i > Len(text) THEN ParseError
    ELSE LET l == text[i]
             others == {j \in (i + 1)..Len(text) : text[j].k # ","}
             close == IF others = {} THEN 0
                      ELSE CHOOSE j \in others : \A m \in others : j <= m
         IN  IF l.k = "}" THEN
                IF i = Len(text) THEN [ok |-> TRUE, null |-> FALSE, val |-> obj]
                ELSE ParseError
             ELSE IF l.k = "[" THEN
                IF close = 0 THEN ParseError
                ELSE IF text[close].k # "]" THEN ParseError
                ELSE IF text[close].v.of # l.v.of THEN ParseError
                ELSE ParseFrom(text, close + 1,
                               (l.v.of :> [n \in 1..(close - i - 1) |-> text[i + n].v])
                                  @@ obj)
             ELSE IF l.k \in {"{", ",", "]", "null"} THEN ParseError
             ELSE ParseFrom(text, i + 1, (l.k :> l.v) @@ obj)

\* JSON.parse(raw): a value, or a SyntaxError (ok = FALSE)
Parse(text) ==
    IF text = <<Mark("null", "")>>
    THEN [ok |-> TRUE, null |-> TRUE, val |-> EmptyObject]
    ELSE IF text = <<>> \/ text[1].k # "{" THEN ParseError
    ELSE ParseFrom(text, 2, EmptyObject)

\* ------------------------------------------------------ the state directory
\* statePath() and the temporary path saveState writes to
statePath == "state.json"
tmpPath == "state.json.tmp"

\* the caller of the sequential specifications
Cli == 0

Named(dir, path) == {i \in dir : path \in i.names}

\* an inode stays while a name or an open descriptor refers to it
Live(inodes) == {i \in inodes : i.names # {} \/ i.fds # {}}

\* readFileSync(path, "utf-8"): the text, or an error (ENOENT, EACCES)
readFileSync(dir, path) ==
    IF \E i \in Named(dir, path) : i.readable
    THEN [ok |-> TRUE, text |-> (CHOOSE i \in Named(dir, path) : TRUE).data]
    ELSE [ok |-> FALSE, text |-> <<>>]

\* open(path, O_WRONLY | O_CREAT | O_TRUNC) by process p
OpenTrunc(dir, p, path) ==
    IF Named(dir, path) = {}
    THEN dir \cup {[names |-> {path}, fds |-> {p}, data |-> <<>>, readable |-> TRUE]}
    ELSE {IF path \in i.names
          THEN [i EXCEPT !.data = <<>>, !.fds = @ \cup {p}] ELSE i : i \in dir}

\* write(fd, text) at offset 0 of the file p has open, then close(fd)
WriteClose(dir, p, text) ==
    Live({IF p \in i.fds
          THEN [i EXCEPT !.data = text \o SubSeq(@, Len(text) + 1, Len(@)),
                         !.fds = @ \ {p}]
          ELSE i : i \in dir})

\* renameSync(from, to); fails with ENOENT when from does not exist
CanRename(dir, from) == Named(dir, from) # {}
Rename(dir, from, to) ==
    Live({IF from \in i.names THEN [i EXCEPT !.names = (@ \ {from}) \cup {to}]
          ELSE [i EXCEPT !.names = @ \ {to}] : i \in dir})

\* ------------------------------------------------------ loadState/saveState
\* a loadState that takes the parsed config as it is
loadStateShallow(dir) ==
    LET raw == readFileSync(dir, statePath)
        parsed == Parse(raw.text)
    IN  IF ~raw.ok \/ ~parsed.ok \/ parsed.null THEN DEFAULT_STATE
        ELSE Spread(DEFAULT_STATE, parsed.val)

loadState(dir) ==
    LET raw == readFileSync(dir, statePath)
        parsed == Parse(raw.text)
    IN  IF ~raw.ok \/ ~parsed.ok \/ parsed.null THEN DEFAULT_STATE
        ELSE Spread(Spread(DEFAULT_STATE, parsed.val),
                    [config |-> Spread(DEFAULT_CONFIG,
                                       IF "config" \in DOMAIN parsed.val
                                       THEN parsed.val.config ELSE EmptyObject)])

\* saveState by one process that no other process interleaves with
saveState(dir, state) ==
    Rename(WriteClose(OpenTrunc(dir, Cli, tmpPath), Cli, Stringify(state)),
           tmpPath, statePath)

\* ------------------------------------------------------------- the mutators
\* each returns the directory after the call and the value returned
\* arr.findIndex(test), given the indices at which test holds; 0 for -1
findIndex(matching) ==
    IF matching = {} THEN 0
    ELSE CHOOSE i \in matching : \A j \in matching : i <= j

\* a call that returns without saving, a call that throws before saving, a
\* call that ends with saveState(state); wrote and state say what it saves
Result(dir, value) ==
    [fs |-> dir, value |-> value, threw |-> FALSE, wrote |-> FALSE, state |-> EmptyObject]
Thrown(dir) ==
    [fs |-> dir, value |-> Undefined, threw |-> TRUE, wrote |-> FALSE, state |-> EmptyObject]
Saved(dir, state, value) ==
    [fs |-> saveState(dir, state), value |-> value, threw |-> FALSE, wrote |-> TRUE,
     state |-> state]

addJournalEntry(dir, entry, t1, t2) ==
    LET state == loadState(dir)
        full == Spread(Spread([id |-> t1, status |-> "open", exitPrice |-> Null,
                               exitTimestamp |-> Null, pnl |-> Null, pnlPct |-> Null],
                              entry),
                       [timestamp |-> IF "timestamp" \in DOMAIN entry /\ entry.timestamp # 0
                                      THEN entry.timestamp ELSE t2])
    IN  Saved(dir, [state EXCEPT !.journal = Append(@, full)], full)

\* an updateJournalEntry that saves what it loaded before it looks for the id
updateJournalEntrySaveFirst(dir, id, updates) ==
    LET state == loadState(dir)
        idx == findIndex({i \in 1..Len(state.journal) : state.journal[i].id = id})
    IN  IF idx = 0 THEN Saved(dir, state, Null)
        ELSE LET merged == Spread(state.journal[idx], updates)
             IN  Saved(dir, [state EXCEPT !.journal[idx] = merged], merged)

updateJournalEntry(dir, id, updates) ==
    LET state == loadState(dir)
        idx == findIndex({i \in 1..Len(state.journal) : state.journal[i].id = id})
    IN  IF idx = 0 THEN Result(dir, Null)
        ELSE LET merged == Spread(state.journal[idx], updates)
             IN  Saved(dir, [state EXCEPT !.journal[idx] = merged], merged)

getJournal(dir, status) ==
    SelectSeq(loadState(dir).journal, LAMBDA j : status = "" \/ j.status = status)

\* an addWatchlistItem that keeps the item the mint already has
addWatchlistItemKeepOld(dir, item, t) ==
    LET state == loadState(dir)
        added == Append(state.watchlist, Spread([addedAt |-> t, lastCheck |-> 0], item))
    IN  Saved(dir, [state EXCEPT !.watchlist = added], item)

addWatchlistItem(dir, item, t) ==
    LET state == loadState(dir)
        kept == SelectSeq(state.watchlist, LAMBDA w : w.mint # item.mint)
        added == Append(kept, Spread([addedAt |-> t, lastCheck |-> 0], item))
    IN  Saved(dir, [state EXCEPT !.watchlist = added], item)

removeWatchlistItem(dir, mint) ==
    LET state == loadState(dir)
        before == Len(state.watchlist)
        kept == SelectSeq(state.watchlist, LAMBDA w : w.mint # mint)
    IN  Saved(dir, [state EXCEPT !.watchlist = kept], Len(kept) < before)

getWatchlist(dir) == loadState(dir).watchlist

\* property names every object inherits from Object.prototype: obj[name] is
\* a truthy value for them although obj has no such key of its own
ObjectPrototypeKeys == {"constructor"}
Inherited == [t |-> "inherited", v |-> 0]

Includes(seq, x) == \E i \in 1..Len(seq) : seq[i] = x

\* mint = "" and notes = "" stand for an argument that is not given
addNarrative(dir, name, mint, notes) ==
    LET state == loadState(dir)
        own == name \in DOMAIN state.narratives
        found == own \/ name \in ObjectPrototypeKeys
        n1 == IF found THEN state.narratives
              ELSE (name :> [tokens |-> <<>>, notes |-> notes]) @@ state.narratives
        has == name \in DOMAIN n1
        n2 == IF mint # "" /\ ~Includes(n1[name].tokens, mint)
              THEN [n1 EXCEPT ![name].tokens = Append(@, mint)] ELSE n1
        n3 == IF notes # "" /\ has THEN [n2 EXCEPT ![name].notes = notes] ELSE n2
    IN  IF mint # "" /\ ~has THEN Thrown(dir)
        ELSE Saved(dir, [state EXCEPT !.narratives = n3],
                    IF has THEN n3[name] ELSE Inherited)

getNarratives(dir) == loadState(dir).narratives

SCAN_HISTORY_MAX == 50

\* arr.slice(-n)
SliceLast(arr, n) == IF Len(arr) > n THEN SubSeq(arr, Len(arr) - n + 1, Len(arr)) ELSE arr

\* an addScanRecord that keeps the first 50 records
addScanRecordKeepOldest(dir, record, t) ==
    LET state == loadState(dir)
        pushed == Append(state.scanHistory, Spread([timestamp |-> t], record))
        capped == IF Len(pushed) > SCAN_HISTORY_MAX
                  THEN SubSeq(pushed, 1, SCAN_HISTORY_MAX) ELSE pushed
    IN  Saved(dir, [state EXCEPT !.scanHistory = capped], Undefined)

addScanRecord(dir, record, t) ==
    LET state == loadState(dir)
        pushed == Append(state.scanHistory, Spread([timestamp |-> t], record))
        capped == IF Len(pushed) > SCAN_HISTORY_MAX
                  THEN SliceLast(pushed, SCAN_HISTORY_MAX) ELSE pushed
    IN  Saved(dir, [state EXCEPT !.scanHistory = capped], Undefined)

addPolyBet(dir, bet, t) ==
    LET state == loadState(dir)
        bets == IF "polymarketBets" \in DOMAIN state THEN state.polymarketBets ELSE <<>>
        pushed == Append(bets, Spread([trackedAt |-> t, status |-> "open"], bet))
    IN  Saved(dir, Spread(state, [polymarketBets |-> pushed]), bet)

getPolyBets(dir, conditionId) ==
    SelectSeq(loadState(dir).polymarketBets,
              LAMBDA b : conditionId = "" \/ b.conditionId = conditionId)

updatePolyBet(dir, conditionId, updates) ==
    LET state == loadState(dir)
        bets == IF "polymarketBets" \in DOMAIN state THEN state.polymarketBets ELSE <<>>
        idx == findIndex({i \in 1..Len(bets) : bets[i].conditionId = conditionId})
    IN  IF idx = 0 THEN Result(dir, Null)
        ELSE LET merged == Spread(state.polymarketBets[idx], updates)
             IN  Saved(dir, [state EXCEPT !.polymarketBets[idx] = merged],
                        merged)

getConfig(dir) == loadState(dir).config

updateConfig(dir, updates) ==
    LET state == loadState(dir)
        config == Spread(state.config, updates)
    IN  Saved(dir, [state EXCEPT !.config = config], config)

\* ------------------------------------------------------------------- inputs
Mints == {"A", "B"}

\* Date.now() when the last reading was t
Ticks(t) == {t} \cup (IF t < MaxClock THEN {t + 1} ELSE {})

EntryInputs ==
    {[type |-> "buy", mint |-> "A", price |-> Num(1)],
     [type |-> "sell", mint |-> "A", price |-> Num(2), status |-> "closed"]}

UpdateInputs == {[status |-> "closed", pnl |-> Num(5)], [pnlPct |-> Num(3)]}

\* the ids a caller may ask for: those Date.now() can have produced and one
\* that was never given out
NoSuchId == MaxClock + 7
IdInputs == 0..MaxClock \cup {NoSuchId}

\* priceAtAdd is the usdPrice of the token found: undefined when the token
\* has none, null when no token was found
WatchInputs ==
    {[mint |-> m, priceAtAdd |-> x[1], targetBuy |-> x[2]] :
        m \in Mints, x \in {<<Null, Null>>, <<Undefined, Num(3)>>, <<Num(1), Null>>}}

NarrativeNames == {"AI", "meme", "constructor"}

\* the record of the scan that follows n others: its score tells it apart
ScanInputs(n) == {[topMints |-> <<"A">>, bestScore |-> Num(n)]}

Conditions == {"c1", "c2"}
BetInputs ==
    {[conditionId |-> c, outcome |-> "YES", amount |-> Num(2), shares |-> Num(4),
      journalId |-> 0] : c \in Conditions}
BetUpdateInputs == {[status |-> "closed", won |-> TRUE]}

ConfigInputs == {[goalUsd |-> Num(500)], [defaultRiskPct |-> Num(5)]}

\* ------------------------------------------------------------------ actions
\* the processes that may run a call at the same time as another
Procs == 1..MaxProcs

\* a process that has not started its call
Idle == [pc |-> "idle", text |-> <<>>, early |-> FALSE, rank |-> 0]

NoCall == [op |-> "none", arg |-> <<>>, value |-> Undefined, threw |-> FALSE]

\* the scan command before it is run
NoScan ==
    [pc |-> "idle", env |-> {}, limit |-> 0, sigs |-> <<>>, pattern |-> "none",
     step |-> 0, i |-> 0, batch |-> 0, pending |-> {}, mints |-> <<>>,
     analyzed |-> <<>>, requests |-> 0, stderr |-> Null, code |-> 0, result |-> Null]

\* no asynchronous call under way
NoRun == [pc |-> "idle"]

Returned(op, arg, r) == [op |-> op, arg |-> arg, value |-> r.value, threw |-> r.threw]

AddJournalEntry ==
    \E entry \in EntryInputs : \E t1 \in Ticks(now) : \E t2 \in Ticks(t1) :
        LET r == addJournalEntry(fs, entry, t1, t2)
        IN  /\ fs' = r.fs /\ now' = t2 /\ ret' = Returned("addJournalEntry", entry, r)
            /\ UNCHANGED <<scanLog, scan, run, tagged, proc>>

UpdateJournalEntry ==
    \E id \in IdInputs : \E updates \in UpdateInputs :
        LET r == updateJournalEntry(fs, id, updates)
        IN  fs' = r.fs /\ now' = now
            /\ ret' = Returned("updateJournalEntry", <<id, updates>>, r)
            /\ UNCHANGED <<scanLog, scan, run, tagged, proc>>

AddWatchlistItem ==
    \E item \in WatchInputs : \E t \in Ticks(now) :
        LET r == addWatchlistItem(fs, item, t)
        IN  /\ fs' = r.fs /\ now' = t /\ ret' = Returned("addWatchlistItem", item, r)
            /\ UNCHANGED <<scanLog, scan, run, tagged, proc>>

RemoveWatchlistItem ==
    \E mint \in Mints :
        LET r == removeWatchlistItem(fs, mint)
        IN  /\ fs' = r.fs /\ now' = now
            /\ ret' = Returned("removeWatchlistItem", mint, r)
            /\ UNCHANGED <<scanLog, scan, run, tagged, proc>>

AddNarrative ==
    \E name \in NarrativeNames : \E mint \in Mints \cup {""} : \E notes \in {"", "hot"} :
        LET r == addNarrative(fs, name, mint, notes)
        IN  fs' = r.fs /\ now' = now
            /\ ret' = Returned("addNarrative", <<name, mint, notes>>, r)
            /\ tagged' = tagged \cup {<<name, mint>>}
            /\ UNCHANGED <<scanLog, scan, run, proc>>

AddScanRecord ==
    \E record \in ScanInputs(Len(scanLog)) : \E t \in Ticks(now) :
        LET r == addScanRecord(fs, record, t)
        IN  /\ fs' = r.fs /\ now' = t /\ ret' = Returned("addScanRecord", record, r)
            /\ scanLog' = Append(scanLog, Spread([timestamp |-> t], record))
            /\ UNCHANGED <<tagged, proc, scan, run>>

AddPolyBet ==
    \E bet \in BetInputs : \E t \in Ticks(now) :
        LET r == addPolyBet(fs, bet, t)
        IN  /\ fs' = r.fs /\ now' = t /\ ret' = Returned("addPolyBet", bet, r)
            /\ UNCHANGED <<scanLog, scan, run, tagged, proc>>

UpdatePolyBet ==
    \E c \in Conditions : \E updates \in BetUpdateInputs :
        LET r == updatePolyBet(fs, c, updates)
        IN  /\ fs' = r.fs /\ now' = now
            /\ ret' = Returned("updatePolyBet", <<c, updates>>, r)
            /\ UNCHANGED <<scanLog, scan, run, tagged, proc>>

UpdateConfig ==
    \E updates \in ConfigInputs :
        LET r == updateConfig(fs, updates)
        IN  /\ fs' = r.fs /\ now' = now /\ ret' = Returned("updateConfig", updates, r)
            /\ UNCHANGED <<scanLog, scan, run, tagged, proc>>

\* ------------------------------------------------- the store, call by call
\* what a state directory may hold before the first call: nothing, a file
\* that cannot be read or parsed, a document of an earlier version that lacks
\* keys, a document with a key of a later version, a complete document
File(text, readable) ==
    {[names |-> {statePath}, fds |-> {}, data |-> text, readable |-> readable]}

OldEntry ==
    [id |-> 0, type |-> "buy", mint |-> "A", status |-> "open", price |-> Num(1),
     exitPrice |-> Null, exitTimestamp |-> Null, pnl |-> Null, pnlPct |-> Null,
     timestamp |-> 0]

\* the text of documents written by an earlier or a later version
OldTexts ==
    {<<Mark("{", ""), Mark("}", "")>>,
     <<Mark("{", ""), Line("version", Num(1)), Mark("[", "journal"),
       Line(",", OldEntry), Mark("]", "journal"), Mark("}", "")>>,
     <<Mark("{", ""), Line("config", [goalUsd |-> Num(500)]),
       Mark("[", "watchlist"), Mark("]", "watchlist"), Mark("}", "")>>,
     Stringify(Spread(DEFAULT_STATE, [extra |-> Num(7)]))}

InitialDirs ==
    {{}} \cup {File(<<>>, TRUE), File(<<Mark("{", "")>>, TRUE),
               File(<<Mark("null", "")>>, TRUE),
               File(Stringify(DEFAULT_STATE), FALSE),
               File(Stringify(DEFAULT_STATE), TRUE)}
         \cup {File(text, TRUE) : text \in OldTexts}

\* no call made and no concurrent process started
Fresh ==
    /\ now = 0 /\ ret = NoCall /\ calls = 0 /\ scanLog = <<>> /\ tagged = {}
    /\ proc = [p \in Procs |-> Idle]
    /\ scan = NoScan
    /\ run = NoRun

Init == fs \in InitialDirs /\ Fresh

Call ==
    \/ AddJournalEntry
    \/ UpdateJournalEntry
    \/ AddWatchlistItem
    \/ RemoveWatchlistItem
    \/ AddNarrative
    \/ AddScanRecord
    \/ AddPolyBet
    \/ UpdatePolyBet
    \/ UpdateConfig

Next == calls < MaxCalls /\ calls' = calls + 1 /\ Call

Spec == Init /\ [][Next]_vars

\* ------------------------------------------------------------- the commands
\* What a command reads from outside is an argument here: how the swap or
\* the order ended ("throw": the call threw or the command exited before it,
\* "ok", "failed": a result with success = false), the price the token search
\* reported (Null when none), the market as getMarket returned it.
\* Prices are whole numbers, so (exit - entry) / entry * 100 is exact.
\* Of a journal entry the model keeps the fields the store and the commands
\* read or write; symbol, chain, amount, mcap, note, narratives and signature
\* are written once and never read by them.

getOpenPositions(dir) == SelectSeq(loadState(dir).journal, LAMBDA j : j.status = "open")

\* addNarrative as the commands call it: when it throws the directory is as
\* it was (cmdBuy and cmdBet catch the error, journal add ends with it)
TagNarrative(dir, narrative, mint) ==
    IF narrative = "" THEN dir ELSE addNarrative(dir, narrative, mint, "").fs

\* the auto-journal of cmdBuy; on Base no price is looked up
cmdBuy(dir, chain, token, narrative, swap, price, t1, t2) ==
    IF swap = "throw" THEN dir
    ELSE LET entry == [type |-> "buy", mint |-> token,
                       price |-> IF chain = "base" THEN Null ELSE price]
             added == addJournalEntry(dir, entry, t1, t2)
         IN  TagNarrative(added.fs, narrative, token)

\* the auto-journal of cmdSell: close the first open buy of the token, then
\* add the sell entry
cmdSell(dir, chain, token, swap, price, t0, t1, t2) ==
    IF swap = "throw" THEN dir
    ELSE LET exitPrice == IF chain = "base" THEN Null ELSE price
             open == getOpenPositions(dir)
             openBuys == SelectSeq(open, LAMBDA j : j.mint = token /\ j.type = "buy")
             buy == openBuys[1]
             known == Truthy(buy.price) /\ Truthy(exitPrice)
             held == IF Truthy(Get(buy, "tokenAmount")) THEN buy.tokenAmount.v ELSE 0
             pnl == IF chain # "base" /\ known
                    THEN Num((exitPrice.v - buy.price.v) * held) ELSE Null
             pnlPct == IF chain # "base" /\ known /\ buy.price.v > 0
                       THEN Num(((exitPrice.v - buy.price.v) * 100) \div buy.price.v)
                       ELSE Null
             closing == [status |-> "closed", exitPrice |-> exitPrice,
                         exitTimestamp |-> Num(t0), pnl |-> pnl, pnlPct |-> pnlPct]
             closed == IF Len(openBuys) > 0
                       THEN updateJournalEntry(dir, buy.id, closing).fs ELSE dir
             entry == [type |-> "sell", mint |-> token,
                       price |-> exitPrice, status |-> "closed"]
         IN  addJournalEntry(closed, entry, t1, t2).fs

\* journal add <type> <chain> <mint> <amount> <price>
journalAdd(dir, type, chain, mint, amount, price, narrative, t1, t2) ==
    LET tokenAmount == IF price > 0 THEN amount \div price ELSE 0
        entry == [type |-> type, mint |-> mint,
                  tokenAmount |-> Num(tokenAmount), price |-> Num(price),
                  status |-> IF type = "sell" THEN "closed" ELSE "open"]
        added == addJournalEntry(dir, entry, t1, t2)
    IN  TagNarrative(added.fs, narrative, mint)

\* cmdBet: market is [closed, price]; price is that of the chosen outcome
cmdBet(dir, conditionId, outcome, amount, narrative, market, order, t1, t2, t3) ==
    IF market.closed \/ order = "throw" THEN dir
    ELSE LET entryPrice == market.price
             shares == IF Truthy(entryPrice) /\ entryPrice.v > 0
                       THEN amount \div entryPrice.v ELSE 0
             entry == [type |-> "bet", mint |-> conditionId, price |-> entryPrice]
             added == addJournalEntry(dir, entry, t1, t2)
             named == TagNarrative(added.fs, narrative, conditionId)
             bet == [conditionId |-> conditionId, outcome |-> outcome,
                     amount |-> Num(amount), entryPrice |-> entryPrice,
                     shares |-> Num(shares), journalId |-> added.value.id]
         IN  addPolyBet(named, bet, t3).fs

\* cmdRedeem <conditionId>: market is [closed, yesResolved]
cmdRedeem(dir, conditionId, market, t0, t1) ==
    LET bets == getPolyBets(dir, conditionId)
        bet == bets[1]
        resolvedOutcome == IF market.yesResolved THEN "YES" ELSE "NO"
        won == bet.outcome = resolvedOutcome
        exitPrice == IF won THEN 1 ELSE 0
        pnl == IF won THEN bet.shares.v - bet.amount.v ELSE 0 - bet.amount.v
        pnlPct == IF bet.amount.v > 0 THEN (pnl * 100) \div bet.amount.v ELSE 0
        closing == [status |-> "closed", exitPrice |-> Num(exitPrice),
                    exitTimestamp |-> Num(t0), pnl |-> Num(pnl), pnlPct |-> Num(pnlPct)]
        journaled == updateJournalEntry(dir, bet.journalId, closing).fs
        resolved == [status |-> "closed", resolvedOutcome |-> resolvedOutcome,
                     won |-> won, exitPrice |-> Num(exitPrice), pnl |-> Num(pnl),
                     pnlPct |-> Num(pnlPct), resolvedAt |-> t1]
    IN  IF Len(bets) = 0 \/ ~market.closed THEN dir
        ELSE updatePolyBet(journaled, conditionId, resolved).fs

Chains == {"sol", "base"}
Outcomes == {"throw", "ok", "failed"}
PriceInputs == {Null, Num(2)}
CmdConditions == {"c1"}
Commanded(op, arg) == [op |-> op, arg |-> arg, value |-> Undefined, threw |-> FALSE]

\* the addNarrative calls made so far, after a command that makes one when
\* it reaches its journaling and a narrative is given
Tagged(reached, narrative, mint) ==
    IF reached /\ narrative # "" THEN tagged \cup {<<narrative, mint>>} ELSE tagged

CmdBuy ==
    \E chain \in Chains : \E token \in Mints : \E narrative \in {"", "AI"} :
    \E swap \in Outcomes : \E price \in PriceInputs :
    \E t1 \in Ticks(now) : \E t2 \in Ticks(t1) :
        /\ fs' = cmdBuy(fs, chain, token, narrative, swap, price, t1, t2)
        /\ now' = IF swap = "throw" THEN now ELSE t2
        /\ ret' = Commanded("buy", <<chain, token, swap>>)
        /\ tagged' = Tagged(swap # "throw", narrative, token)
        /\ UNCHANGED <<scanLog, scan, run, proc>>

CmdSell ==
    \E chain \in Chains : \E token \in Mints :
    \E swap \in Outcomes : \E price \in PriceInputs :
    \E t0 \in Ticks(now) : \E t1 \in Ticks(t0) : \E t2 \in Ticks(t1) :
        /\ fs' = cmdSell(fs, chain, token, swap, price, t0, t1, t2)
        /\ now' = IF swap = "throw" THEN now ELSE t2
        /\ ret' = Commanded("sell", <<chain, token, swap>>)
        /\ UNCHANGED <<scanLog, scan, run, tagged, proc>>

JournalAdd ==
    \E type \in {"buy", "sell"} : \E mint \in Mints : \E price \in {0, 1} :
    \E narrative \in {"", "AI"} : \E t1 \in Ticks(now) : \E t2 \in Ticks(t1) :
        /\ fs' = journalAdd(fs, type, "sol", mint, 2, price, narrative, t1, t2)
        /\ now' = t2
        /\ ret' = Commanded("journal add", <<type, mint>>)
        /\ tagged' = Tagged(TRUE, narrative, mint)
        /\ UNCHANGED <<scanLog, scan, run, proc>>

CmdBet ==
    \E c \in CmdConditions : \E outcome \in {"YES", "NO"} : \E narrative \in {"", "AI"} :
    \E closed \in BOOLEAN : \E price \in {Null, Num(1)} : \E order \in {"throw", "ok"} :
    \E t1 \in Ticks(now) : \E t2 \in Ticks(t1) : \E t3 \in Ticks(t2) :
        LET market == [closed |-> closed, price |-> price]
        IN  /\ fs' = cmdBet(fs, c, outcome, 2, narrative, market, order, t1, t2, t3)
            /\ now' = IF closed \/ order = "throw" THEN now ELSE t3
            /\ ret' = Commanded("bet", <<c, outcome, order>>)
            /\ tagged' = Tagged(~closed /\ order # "throw", narrative, c)
            /\ UNCHANGED <<scanLog, scan, run, proc>>

CmdRedeem ==
    \E c \in CmdConditions : \E closed \in BOOLEAN : \E yesResolved \in BOOLEAN :
    \E t0 \in Ticks(now) : \E t1 \in Ticks(t0) :
        LET market == [closed |-> closed, yesResolved |-> yesResolved]
        IN  /\ fs' = cmdRedeem(fs, c, market, t0, t1)
            /\ now' = IF closed /\ getPolyBets(fs, c) # <<>> THEN t1 ELSE now
            /\ ret' = Commanded("redeem", <<c, closed>>)
            /\ UNCHANGED <<scanLog, scan, run, tagged, proc>>

CmdInit == fs = {} /\ Fresh

CmdNext ==
    \/ Len(loadState(fs).journal) < MaxJournal /\ CmdBuy /\ UNCHANGED calls
    \/ Len(loadState(fs).journal) < MaxJournal /\ CmdSell /\ UNCHANGED calls
    \/ Len(loadState(fs).journal) < MaxJournal /\ JournalAdd /\ UNCHANGED calls
    \/ Len(loadState(fs).journal) < MaxJournal /\ CmdBet /\ UNCHANGED calls
    \/ CmdRedeem /\ UNCHANGED calls

SpecCmd == CmdInit /\ [][CmdNext]_vars

\* ------------------------------------------- the journal, from an empty one
JournalInit == fs = {} /\ Fresh

JournalNext ==
    \/ Len(loadState(fs).journal) < MaxJournal /\ AddJournalEntry /\ UNCHANGED calls
    \/ UpdateJournalEntry /\ UNCHANGED calls

SpecJournal == JournalInit /\ [][JournalNext]_vars

\* ----------------------------------------- the watchlist, from an empty one
WatchInit == fs = {} /\ Fresh

WatchNext ==
    \/ AddWatchlistItem /\ UNCHANGED calls
    \/ RemoveWatchlistItem /\ UNCHANGED calls

SpecWatch == WatchInit /\ [][WatchNext]_vars

\* ------------------------------------------ the scan history, scan by scan
ScanInit == fs = {} /\ Fresh

ScanNext == Len(scanLog) < MaxScans /\ AddScanRecord /\ UNCHANGED calls

SpecScan == ScanInit /\ [][ScanNext]_vars

\* ----------------------------------------------------------- the narratives
NarrInit == fs = {} /\ Fresh

NarrNext == AddNarrative /\ UNCHANGED calls

SpecNarr == NarrInit /\ [][NarrNext]_vars

\* ---------------------------------------- processes on one state directory
\* Each process runs one mutating call.  The call loads the document and
\* changes it in memory (Begin); its saveState then opens state.json.tmp,
\* which truncates it (SaveOpen), writes the text and closes (SaveWrite), and
\* renames the file over state.json (SaveRename).  writeFileSync is the
\* system calls open, write and close, and another process can run between
\* any two system calls.  ReadState is a loadState by one more process.

\* what a call is about to save: the text, or nothing when it returns or
\* throws before saveState
Plan(r) == IF r.wrote THEN Stringify(r.state) ELSE <<>>

\* what the mutating calls are about to save when Date.now() reads t
Mutations(dir, t) ==
    {Plan(addJournalEntry(dir, entry, t, t)) : entry \in EntryInputs}
      \cup {Plan(updateJournalEntry(dir, id, u)) : id \in IdInputs, u \in UpdateInputs}
      \cup {Plan(addWatchlistItem(dir, item, t)) : item \in WatchInputs}
      \cup {Plan(removeWatchlistItem(dir, mint)) : mint \in Mints}
      \cup {Plan(addNarrative(dir, name, "A", "")) : name \in NarrativeNames}
      \cup {Plan(addScanRecord(dir, record, t)) : record \in ScanInputs(0)}
      \cup {Plan(addPolyBet(dir, bet, t)) : bet \in BetInputs}
      \cup {Plan(updatePolyBet(dir, c, u)) : c \in Conditions, u \in BetUpdateInputs}
      \cup {Plan(updateConfig(dir, u)) : u \in ConfigInputs}

Begin(p) ==
    /\ proc[p].pc = "idle"
    /\ \E t \in Ticks(now) : \E text \in Mutations(fs, t) :
          /\ now' = t
          /\ proc' = [proc EXCEPT ![p] =
                 IF text # <<>>
                 THEN [pc |-> "open", text |-> text, rank |-> 0,
                       early |-> \A q \in Procs : proc[q].pc \in {"idle", "open"}]
                 ELSE [Idle EXCEPT !.pc = "done"]]
    /\ UNCHANGED <<fs, ret, calls, scanLog, scan, run, tagged>>

SaveOpen(p) ==
    /\ proc[p].pc = "open"
    /\ fs' = OpenTrunc(fs, p, tmpPath)
    /\ proc' = [proc EXCEPT ![p].pc = "write"]
    /\ UNCHANGED <<now, ret, calls, scanLog, scan, run, tagged>>

SaveWrite(p) ==
    /\ proc[p].pc = "write"
    /\ fs' = WriteClose(fs, p, proc[p].text)
    /\ proc' = [proc EXCEPT ![p].pc = "rename"]
    /\ UNCHANGED <<now, ret, calls, scanLog, scan, run, tagged>>

\* the number of renames done so far
Renames == Cardinality({q \in Procs : proc[q].rank > 0})

SaveRename(p) ==
    /\ proc[p].pc = "rename"
    /\ IF CanRename(fs, tmpPath)
       THEN /\ fs' = Rename(fs, tmpPath, statePath)
            /\ proc' = [proc EXCEPT ![p].pc = "done", ![p].rank = Renames + 1]
       ELSE /\ fs' = fs
            /\ proc' = [proc EXCEPT ![p].pc = "threw"]
    /\ UNCHANGED <<now, ret, calls, scanLog, scan, run, tagged>>

ReadState ==
    /\ ret' = [op |-> "loadState", arg |-> readFileSync(fs, statePath),
               value |-> loadState(fs), threw |-> FALSE]
    /\ UNCHANGED <<fs, now, calls, scanLog, scan, run, tagged, proc>>

\* the documents the directory may hold when the processes start
ConcTexts ==
    {Stringify(DEFAULT_STATE),
     Stringify([DEFAULT_STATE EXCEPT !.journal = <<OldEntry>>])}

ConcInit == (\E text \in ConcTexts : fs = File(text, TRUE)) /\ Fresh

ConcNext ==
    \/ \E p \in Procs : Begin(p)
    \/ \E p \in Procs : SaveOpen(p)
    \/ \E p \in Procs : SaveWrite(p)
    \/ \E p \in Procs : SaveRename(p)
    \/ ReadState

SpecConc == ConcInit /\ [][ConcNext]_vars

\* ------------------------------------------------------------------ claims
\* C1: a loadState that runs while other processes save finds state.json and
\* reads from it a complete document: the text one saveState call wrote, or
\* the text that was there at the start; never an empty or partial one.
C1_WrittenTexts == {proc[p].text : p \in {q \in Procs : proc[q].text # <<>>}}

C1_AtomicSave ==
    ret.op = "loadState" =>
        /\ ret.arg.ok
        /\ ret.arg.text \in C1_WrittenTexts \cup ConcTexts

\* C2: when two mutating calls have both loaded before either began to save,
\* both saveState calls return and state.json holds the text of the call
\* that renamed last.
C2_BothSaved ==
    \A p \in Procs : proc[p].pc \in {"done", "threw"} /\ proc[p].text # <<>>
                          /\ proc[p].early

C2_LastWriterWins ==
    C2_BothSaved =>
        /\ \A p \in Procs : proc[p].pc = "done"
        /\ \E p \in Procs :
              /\ proc[p].rank = MaxProcs
              /\ readFileSync(fs, statePath) = [ok |-> TRUE, text |-> proc[p].text]

Journal(dir) == loadState(dir).journal
Bets(dir) == loadState(dir).polymarketBets

\* C3: loadState never fails.  When state.json is missing, unreadable or not
\* parsable it returns the default document; when the file parses, every key
\* of the parsed document is returned as parsed and every missing top-level
\* key and every missing config key has its default value, so that the keys
\* the mutators work on are all there.
C3_LoadDefaults ==
    LET raw == readFileSync(fs, statePath)
        parsed == Parse(raw.text)
        d == loadState(fs)
        pconfig == IF "config" \in DOMAIN parsed.val THEN parsed.val.config
                   ELSE EmptyObject
    IN  /\ DOMAIN DEFAULT_STATE \subseteq DOMAIN d
        /\ DOMAIN DEFAULT_CONFIG \subseteq DOMAIN d.config
        /\ (~raw.ok \/ ~parsed.ok) => d = DEFAULT_STATE
        /\ (raw.ok /\ parsed.ok) =>
              /\ \A k \in DOMAIN parsed.val \ {"config"} : d[k] = parsed.val[k]
              /\ \A k \in DOMAIN pconfig : d.config[k] = pconfig[k]
              /\ \A k \in DOMAIN DEFAULT_STATE \ (DOMAIN parsed.val \cup {"config"}) :
                    d[k] = DEFAULT_STATE[k]
              /\ \A k \in DOMAIN DEFAULT_CONFIG \ DOMAIN pconfig :
                    d.config[k] = DEFAULT_CONFIG[k]

\* addJournalEntry has run on a file that had a config with goalUsd alone and
\* no journal: it found the journal and the other config keys as defaulted
C3_Witness ==
    /\ calls = 1 /\ ret.op = "addJournalEntry" /\ Len(Journal(fs)) = 1
    /\ loadState(fs).config =
          [DEFAULT_CONFIG EXCEPT !.goalUsd = Num(500)]

\* C4: for the document d that loadState returns, saveState(d) followed by
\* loadState returns d again, and a further save(load()) leaves the directory
\* as it is.
C4_RoundTrip ==
    LET d == loadState(fs)
        saved == saveState(fs, d)
    IN  /\ loadState(saved) = d
        /\ saveState(saved, loadState(saved)) = saved

\* a call has saved a document that holds a journal entry with null fields
\* and a key this version does not know
C4_Witness ==
    /\ calls > 0 /\ "extra" \in DOMAIN loadState(fs)
    /\ Len(Journal(fs)) > 0 /\ Journal(fs)[1].pnl = Null

\* C5: updateJournalEntry with an id that is not in the journal, and
\* updatePolyBet with a conditionId that is not tracked, return null without
\* throwing and leave the state directory as it was.
C5_Missed ==
    \/ /\ ret'.op = "updateJournalEntry"
       /\ ~\E i \in 1..Len(Journal(fs)) : Journal(fs)[i].id = ret'.arg[1]
    \/ /\ ret'.op = "updatePolyBet"
       /\ ~\E i \in 1..Len(Bets(fs)) : Bets(fs)[i].conditionId = ret'.arg[1]

C5_UpdateUnknown ==
    [][C5_Missed => (ret'.value = Null /\ ~ret'.threw /\ fs' = fs)]_vars

\* an update missed in a journal that has entries
C5_Witness ==
    /\ ret.op = "updateJournalEntry" /\ ret.value = Null
    /\ Len(Journal(fs)) > 0

\* C6: when updateJournalEntry(e.id, u) follows the addJournalEntry that
\* returned e, u is merged into the entry just added (the last one) and every
\* other entry is as before; after closing e, getJournal({status: "closed"})
\* holds one entry with e's id, and it is e with the updated fields.
C6_UpdateAfterAdd ==
    (ret.op = "addJournalEntry" /\ ret'.op = "updateJournalEntry"
       /\ ret'.arg[1] = ret.value.id) =>
        LET before == Journal(fs)
            after == Journal(fs')
            n == Len(before)
            e == ret.value
            u == ret'.arg[2]
            closed == getJournal(fs', "closed")
            mine == {i \in 1..Len(closed) : closed[i].id = e.id}
        IN  /\ Len(after) = n
            /\ after[n] = Spread(e, u)
            /\ \A i \in 1..(n - 1) : after[i] = before[i]
            /\ ("status" \in DOMAIN u /\ u.status = "closed") =>
                  /\ Cardinality(mine) = 1
                  /\ \A i \in mine : closed[i] = Spread(e, u)

C6_UpdatesTheAddedEntry == [][C6_UpdateAfterAdd]_vars

\* C7: over any sequence of buy, sell, bet, redeem and journal add commands a
\* closed journal entry stays closed with the closing fields it has, and an
\* open entry has null pnl and pnlPct.
ClosingFields == {"exitPrice", "exitTimestamp", "pnl", "pnlPct"}

C7_Step ==
    LET before == Journal(fs)
        after == Journal(fs')
    IN  /\ \A i \in 1..Len(before) :
              before[i].status = "closed" =>
                  /\ after[i].status = "closed"
                  /\ \A k \in ClosingFields : after[i][k] = before[i][k]
        /\ \A i \in 1..Len(after) :
              after[i].status = "open" => after[i].pnl = Null /\ after[i].pnlPct = Null

C7_DistinctIds ==
    \A i, j \in 1..Len(Journal(fs)) : Journal(fs)[i].id = Journal(fs)[j].id => i = j

\* stated for journals whose ids are distinct, so that it does not rest on ids
C7_ClosedOnce == [][C7_DistinctIds => C7_Step]_vars

\* C8: the watchlist never holds two items with the same mint.  After
\* addWatchlistItem(item) the one item with item.mint is the last of the list
\* and holds item's fields, addedAt and lastCheck and nothing of an item it
\* replaced; the items of other mints are as before.  After
\* removeWatchlistItem(mint) no item has that mint, the others are as before,
\* and the call returned true exactly when an item had the mint.
Watchlist(dir) == loadState(dir).watchlist

C8_Others(list, mint) == SelectSeq(list, LAMBDA w : w.mint # mint)

C8_Step ==
    LET before == Watchlist(fs)
        after == Watchlist(fs')
    IN  /\ \A i, j \in 1..Len(after) : after[i].mint = after[j].mint => i = j
        /\ ret'.op = "addWatchlistItem" =>
              LET item == ret'.arg
                  stored == after[Len(after)]
              IN  /\ Len(after) > 0
                  /\ stored.mint = item.mint
                  /\ \A k \in DOMAIN item \ {"mint"} : Get(stored, k) = item[k]
                  /\ stored.addedAt = now' /\ stored.lastCheck = 0
                  /\ DOMAIN stored \subseteq DOMAIN item \cup {"addedAt", "lastCheck"}
                  /\ C8_Others(after, item.mint) = C8_Others(before, item.mint)
                  /\ ret'.value = item
        /\ ret'.op = "removeWatchlistItem" =>
              /\ after = C8_Others(before, ret'.arg)
              /\ ret'.value = (\E i \in 1..Len(before) : before[i].mint = ret'.arg)

C8_UniqueMints == [][C8_Step]_vars

\* a remove has returned true and left the item of the other mint
C8_Witness ==
    /\ ret.op = "removeWatchlistItem" /\ ret.value = TRUE
    /\ Len(Watchlist(fs)) = 1

\* C9: scanHistory is the last 50 of the records pushed so far (all of them
\* while there are at most 50), each as it was pushed and in the order of the
\* calls.
C9_Last50 ==
    LET h == loadState(fs).scanHistory
        n == Len(scanLog)
        dropped == IF n > 50 THEN n - 50 ELSE 0
    IN  /\ Len(h) <= 50
        /\ Len(h) = n - dropped
        /\ \A i \in 1..Len(h) : h[i] = scanLog[dropped + i]

\* more than 50 records were pushed
C9_Witness == Len(scanLog) > 50 /\ Len(loadState(fs).scanHistory) = 50

\* C10: a record exists for every name addNarrative was called with; its
\* tokens hold every mint added under the name and none twice; a call that
\* gives no notes leaves the notes of an existing record as they are.
Narratives(dir) == loadState(dir).narratives

C10_Step ==
    LET before == Narratives(fs)
        after == Narratives(fs')
    IN  /\ \A pair \in tagged' :
              /\ pair[1] \in DOMAIN after
              /\ pair[2] # "" => Includes(after[pair[1]].tokens, pair[2])
        /\ \A name \in DOMAIN after :
              \A i, j \in 1..Len(after[name].tokens) :
                  after[name].tokens[i] = after[name].tokens[j] => i = j
        /\ (ret'.op = "addNarrative" /\ ret'.arg[3] = ""
               /\ ret'.arg[1] \in DOMAIN before /\ ret'.arg[1] \in DOMAIN after) =>
              after[ret'.arg[1]].notes = before[ret'.arg[1]].notes

C10_TokensAccumulate == [][C10_Step]_vars

\* ------------------------------------------------------- numbers of calc.mjs
\* A JavaScript number in the calculators and the scorers is a fraction n/d
\* in lowest terms (d > 0), Infinity, -Infinity or NaN, and the arithmetic is
\* that of the reals extended as IEEE 754 extends it: x/0 is an infinity of
\* the sign of x, 0/0 and Infinity - Infinity and 0 * Infinity are NaN, every
\* comparison with NaN is false.  Rounding to 53 bits and the sign of zero
\* are left out.
RECURSIVE Gcd(_, _)
Gcd(a, b) == IF b = 0 THEN a ELSE Gcd(b, a % b)

Magnitude(n) == IF n < 0 THEN 0 - n ELSE n

Frac(n, d) ==
    LET g == Gcd(Magnitude(n), Magnitude(d))
        sign == IF d < 0 THEN 0 - 1 ELSE 1
    IN  [t |-> "num", n |-> (sign * n) \div g, d |-> (sign * d) \div g]

Whole(n) == Frac(n, 1)
Infinity == [t |-> "inf", n |-> 1, d |-> 0]
NegInfinity == [t |-> "inf", n |-> 0 - 1, d |-> 0]

IsNumber(x) == x.t \in {"num", "inf"}

\* the sign of a number: -1, 0, 1
Sign(x) == IF x.n < 0 THEN 0 - 1 ELSE IF x.n > 0 THEN 1 ELSE 0

\* -x
Negate(x) ==
    IF x = NaN THEN NaN
    ELSE IF x.t = "inf" THEN [x EXCEPT !.n = 0 - x.n]
    ELSE Frac(0 - x.n, x.d)

\* a + b
Plus(a, b) ==
    IF a = NaN \/ b = NaN THEN NaN
    ELSE IF a.t = "inf" /\ b.t = "inf" THEN IF a = b THEN a ELSE NaN
    ELSE IF a.t = "inf" THEN a
    ELSE IF b.t = "inf" THEN b
    ELSE LET g == Gcd(a.d, b.d)
         IN  Frac(a.n * (b.d \div g) + b.n * (a.d \div g), (a.d \div g) * b.d)

\* a - b
Minus(a, b) == Plus(a, Negate(b))

\* a * b
Times(a, b) ==
    IF a = NaN \/ b = NaN THEN NaN
    ELSE IF a.t = "inf" \/ b.t = "inf"
         THEN IF Sign(a) * Sign(b) = 0 THEN NaN
              ELSE IF Sign(a) * Sign(b) > 0 THEN Infinity ELSE NegInfinity
    ELSE Frac(a.n * b.n, a.d * b.d)

\* a / b
Over(a, b) ==
    IF a = NaN \/ b = NaN THEN NaN
    ELSE IF a.t = "inf" /\ b.t = "inf" THEN NaN
    ELSE IF a.t = "inf"
         THEN IF Sign(a) * Sign(b) < 0 THEN NegInfinity ELSE Infinity
    ELSE IF b.t = "inf" THEN Whole(0)
    ELSE IF b.n = 0
         THEN IF a.n = 0 THEN NaN ELSE IF a.n > 0 THEN Infinity ELSE NegInfinity
    ELSE Frac(a.n * b.d, a.d * b.n)

\* a < b, a <= b
Less(a, b) ==
    /\ a # NaN /\ b # NaN /\ a # b
    /\ IF a.t = "inf" THEN a.n < 0
       ELSE IF b.t = "inf" THEN b.n > 0
       ELSE LET g == Gcd(a.d, b.d)
            IN  a.n * (b.d \div g) < b.n * (a.d \div g)

LessEq(a, b) == a # NaN /\ b # NaN /\ (a = b \/ Less(a, b))

\* Math.min(a, b), Math.max(a, b), Math.abs(x)
MathMin(a, b) == IF a = NaN \/ b = NaN THEN NaN ELSE IF Less(b, a) THEN b ELSE a
MathMax(a, b) == IF a = NaN \/ b = NaN THEN NaN ELSE IF Less(a, b) THEN b ELSE a
MathAbs(x) == IF x = NaN THEN NaN ELSE IF Sign(x) < 0 THEN Negate(x) ELSE x

\* !x for a number, null or undefined
Not(x) == x \in {NaN, Null, Undefined, Whole(0)}

\* ---------------------------------------------------------------- calc.mjs
\* x > 0 for a number, null or undefined
Positive(x) == x \notin {NaN, Null, Undefined} /\ Sign(x) > 0

\* !x || x <= 0
Invalid(x) == Not(x) \/ Sign(x) <= 0

\* x || null
OrNull(x) == IF Not(x) THEN Null ELSE x

calcTargetPosition(currentPrice, totalSupply, targetUsd) ==
    IF Invalid(currentPrice) THEN [error |-> "Invalid price"]
    ELSE LET tokensNeeded == Over(targetUsd, currentPrice)
         IN  [tokensNeeded |-> tokensNeeded,
              costAtCurrentPrice |-> Times(tokensNeeded, currentPrice),
              pctOfSupply |-> IF Positive(totalSupply)
                              THEN Times(Over(tokensNeeded, totalSupply), Whole(100))
                              ELSE Null,
              currentMcap |-> IF Positive(totalSupply)
                              THEN Times(currentPrice, totalSupply) ELSE Null,
              targetUsd |-> targetUsd, currentPrice |-> currentPrice]

\* a calcRequiredMcap that does not look at the supply
calcRequiredMcapAnySupply(tokensHeld, totalSupply, targetUsd) ==
    IF Invalid(tokensHeld) THEN [error |-> "Invalid token amount"]
    ELSE LET requiredPrice == Over(targetUsd, tokensHeld)
         IN  [requiredMcap |-> Times(requiredPrice, totalSupply),
              requiredPrice |-> requiredPrice, tokensHeld |-> tokensHeld,
              totalSupply |-> totalSupply, targetUsd |-> targetUsd,
              multiplierNeeded |-> Null]

calcRequiredMcap(tokensHeld, totalSupply, targetUsd) ==
    IF Invalid(tokensHeld) THEN [error |-> "Invalid token amount"]
    ELSE IF Invalid(totalSupply) THEN [error |-> "Invalid supply"]
    ELSE LET requiredPrice == Over(targetUsd, tokensHeld)
         IN  [requiredMcap |-> Times(requiredPrice, totalSupply),
              requiredPrice |-> requiredPrice, tokensHeld |-> tokensHeld,
              totalSupply |-> totalSupply, targetUsd |-> targetUsd,
              multiplierNeeded |-> Null]

calcRequiredMcapWithCurrent(tokensHeld, totalSupply, targetUsd, currentMcap) ==
    LET base == calcRequiredMcap(tokensHeld, totalSupply, targetUsd)
    IN  IF "error" \in DOMAIN base THEN base
        ELSE Spread(base,
                    [currentMcap |-> currentMcap,
                     multiplierNeeded |-> IF Positive(currentMcap)
                                          THEN Over(base.requiredMcap, currentMcap)
                                          ELSE Null])

\* a calcPositionSize that takes any stop-loss above zero as a stop
calcPositionSizeAnyStop(portfolioValue, riskPct, entryPrice, stopLossPrice) ==
    IF Invalid(portfolioValue) THEN [error |-> "Invalid portfolio value"]
    ELSE IF Invalid(riskPct) THEN [error |-> "Invalid risk %"]
    ELSE IF Invalid(entryPrice) THEN [error |-> "Invalid entry price"]
    ELSE LET riskAmount == Times(portfolioValue, Over(riskPct, Whole(100)))
             tokensToBuy == IF Positive(stopLossPrice)
                            THEN Over(riskAmount, Minus(entryPrice, stopLossPrice))
                            ELSE Over(riskAmount, entryPrice)
             positionSize == IF Positive(stopLossPrice)
                             THEN Times(tokensToBuy, entryPrice) ELSE riskAmount
         IN  [positionSize |-> positionSize, tokensToBuy |-> tokensToBuy,
              riskAmount |-> riskAmount, riskPct |-> riskPct,
              pctOfPortfolio |-> Times(Over(positionSize, portfolioValue), Whole(100)),
              entryPrice |-> entryPrice, stopLossPrice |-> OrNull(stopLossPrice)]

calcPositionSize(portfolioValue, riskPct, entryPrice, stopLossPrice) ==
    IF Invalid(portfolioValue) THEN [error |-> "Invalid portfolio value"]
    ELSE IF Invalid(riskPct) THEN [error |-> "Invalid risk %"]
    ELSE IF Invalid(entryPrice) THEN [error |-> "Invalid entry price"]
    ELSE LET riskAmount == Times(portfolioValue, Over(riskPct, Whole(100)))
             stop == Positive(stopLossPrice) /\ Less(stopLossPrice, entryPrice)
             tokensToBuy == IF stop
                            THEN Over(riskAmount, Minus(entryPrice, stopLossPrice))
                            ELSE Over(riskAmount, entryPrice)
             positionSize == IF stop THEN Times(tokensToBuy, entryPrice) ELSE riskAmount
         IN  [positionSize |-> positionSize, tokensToBuy |-> tokensToBuy,
              riskAmount |-> riskAmount, riskPct |-> riskPct,
              pctOfPortfolio |-> Times(Over(positionSize, portfolioValue), Whole(100)),
              entryPrice |-> entryPrice, stopLossPrice |-> OrNull(stopLossPrice)]

\* the recommendation is kept as the branch that wrote it
calcKellyCriterion(winRate, avgWin, avgLoss) ==
    IF avgLoss = Whole(0)
    THEN [kellyPct |-> Whole(0), halfKellyPct |-> Whole(0),
          recommendation |-> "No losses recorded"]
    ELSE IF LessEq(winRate, Whole(0))
    THEN [kellyPct |-> Whole(0), halfKellyPct |-> Whole(0),
          recommendation |-> "No wins"]
    ELSE LET R == Over(MathAbs(avgWin), MathAbs(avgLoss))
             raw == Times(Minus(winRate, Over(Minus(Whole(1), winRate), R)), Whole(100))
             kellyPct == MathMin(raw, Whole(25))
             halfKellyPct == MathMax(Over(kellyPct, Whole(2)), Whole(0))
         IN  [kellyPct |-> MathMax(kellyPct, Whole(0)), halfKellyPct |-> halfKellyPct,
              winLossRatio |-> R,
              recommendation |->
                  IF LessEq(kellyPct, Whole(0)) THEN "Negative edge"
                  ELSE IF Less(halfKellyPct, Whole(1)) THEN "Very small edge"
                  ELSE IF Less(halfKellyPct, Whole(5)) THEN "half-Kelly"
                  ELSE "half-Kelly, capped"]

\* x || 0
OrZero(x) == IF Not(x) THEN Whole(0) ELSE x

\* arr.reduce((s, e) => s + e, 0) for an array of numbers
RECURSIVE Sum(_)
Sum(numbers) ==
    IF numbers = <<>> THEN Whole(0)
    ELSE Plus(Sum(SubSeq(numbers, 1, Len(numbers) - 1)), numbers[Len(numbers)])

\* the values of field k of the entries, with || 0
Column(entries, k) == [i \in 1..Len(entries) |-> OrZero(Get(entries[i], k))]

IsWin(e) == Positive(e.pnlPct)

\* a walk whose counter keeps its sign when the outcome flips
RECURSIVE StreaksNoReset(_, _, _)
StreaksNoReset(closed, i, acc) ==
    IF i > Len(closed) THEN acc
    ELSE LET temp == IF IsWin(closed[i])
                     THEN IF acc.temp >= 0 THEN acc.temp + 1 ELSE acc.temp - 1
                     ELSE IF acc.temp <= 0 THEN acc.temp - 1 ELSE acc.temp + 1
         IN  StreaksNoReset(closed, i + 1,
                     [temp |-> temp, current |-> temp,
                      bestWin |-> IF IsWin(closed[i]) /\ temp > acc.bestWin
                                  THEN temp ELSE acc.bestWin,
                      worstLose |-> IF ~IsWin(closed[i]) /\ Magnitude(temp) > acc.worstLose
                                    THEN Magnitude(temp) ELSE acc.worstLose])

\* the walk over the closed entries that counts the streaks
RECURSIVE Streaks(_, _, _)
Streaks(closed, i, acc) ==
    IF i > Len(closed) THEN acc
    ELSE LET temp == IF IsWin(closed[i])
                     THEN IF acc.temp > 0 THEN acc.temp + 1 ELSE 1
                     ELSE IF acc.temp < 0 THEN acc.temp - 1 ELSE 0 - 1
         IN  Streaks(closed, i + 1,
                     [temp |-> temp, current |-> temp,
                      bestWin |-> IF IsWin(closed[i]) /\ temp > acc.bestWin
                                  THEN temp ELSE acc.bestWin,
                      worstLose |-> IF ~IsWin(closed[i]) /\ Magnitude(temp) > acc.worstLose
                                    THEN Magnitude(temp) ELSE acc.worstLose])

\* e.chain || "unknown"
ChainOf(e) == IF "chain" \in DOMAIN e THEN e.chain ELSE "unknown"

\* e.narratives || []
NarrativesOf(e) == IF "narratives" \in DOMAIN e THEN e.narratives ELSE <<>>

\* analyzeJournal from its second statement on, for the entries its filter
\* kept; bestTrade, worstTrade and the text of the Kelly recommendation are
\* left out
analyzeClosed(closed) ==
    LET wins == SelectSeq(closed, IsWin)
        losses == SelectSeq(closed, LAMBDA e : LessEq(e.pnlPct, Whole(0)))
        winRate == Over(Whole(Len(wins)), Whole(Len(closed)))
        avgWinPct == IF Len(wins) > 0
                     THEN Over(Sum(Column(wins, "pnlPct")), Whole(Len(wins)))
                     ELSE Whole(0)
        avgLossPct == IF Len(losses) > 0
                      THEN Over(Sum([i \in 1..Len(losses) |-> MathAbs(losses[i].pnlPct)]),
                                Whole(Len(losses)))
                      ELSE Whole(0)
        grossProfit == Sum(Column(wins, "pnl"))
        grossLoss == MathAbs(Sum(Column(losses, "pnl")))
        kelly == calcKellyCriterion(winRate, avgWinPct, avgLossPct)
        tagged_by(n) == SelectSeq(closed, LAMBDA e : Includes(NarrativesOf(e), n))
        names == {n \in UNION {{NarrativesOf(closed[i])[j] :
                                   j \in 1..Len(NarrativesOf(closed[i]))} :
                               i \in 1..Len(closed)} : n \notin ObjectPrototypeKeys}
        on(c) == SelectSeq(closed, LAMBDA e : ChainOf(e) = c)
        chains == {c \in {ChainOf(closed[i]) : i \in 1..Len(closed)} :
                      c \notin ObjectPrototypeKeys}
        walk == Streaks(closed, 1, [temp |-> 0, current |-> 0, bestWin |-> 0,
                                   worstLose |-> 0])
    IN  IF Len(closed) = 0
        THEN [totalTrades |-> 0, wins |-> 0, losses |-> 0, winRate |-> Whole(0),
              avgPnlPct |-> Whole(0), message |-> "No closed trades to analyze"]
        ELSE [totalTrades |-> Len(closed), wins |-> Len(wins), losses |-> Len(losses),
              winRate |-> winRate,
              avgPnlPct |-> Over(Sum(Column(closed, "pnlPct")), Whole(Len(closed))),
              totalPnl |-> Sum(Column(closed, "pnl")),
              profitFactor |-> IF Positive(grossLoss) THEN Over(grossProfit, grossLoss)
                               ELSE IF Positive(grossProfit) THEN Infinity ELSE Whole(0),
              kellyPct |-> kelly.kellyPct, halfKellyPct |-> kelly.halfKellyPct,
              byNarrative |->
                  [n \in names |->
                      [trades |-> Len(tagged_by(n)),
                       wins |-> Len(SelectSeq(tagged_by(n), IsWin)),
                       totalPnlPct |-> Sum(Column(tagged_by(n), "pnlPct"))]],
              byChain |->
                  [c \in chains |->
                      [trades |-> Len(on(c)), wins |-> Len(SelectSeq(on(c), IsWin)),
                       totalPnl |-> Sum(Column(on(c), "pnl"))]],
              streaks |-> [current |-> walk.current, bestWin |-> walk.bestWin,
                           worstLose |-> walk.worstLose]]

\* an analyzeJournal that takes the entries of every status
analyzeJournalAnyStatus(entries) ==
    analyzeClosed(SelectSeq(entries,
                            LAMBDA e : Get(e, "pnlPct") \notin {Null, Undefined}))

analyzeJournal(entries) ==
    analyzeClosed(SelectSeq(entries,
                            LAMBDA e : e.status = "closed"
                                       /\ Get(e, "pnlPct") \notin {Null, Undefined}))

\* ------------------------------------------------- the calculators, called
MaxEntries == 3

\* arguments the commands pass: Number(text) that is not NaN
Amounts == {Whole(0 - 1), Whole(0), Whole(3), Whole(1000)}
Prices == {Whole(0 - 1), Whole(0), Frac(4, 5), Whole(1), Whole(2)}
Portfolios == {Whole(0 - 1), Whole(0), Whole(100), Whole(10000)}
RiskPcts == {Whole(0 - 1), Whole(0), Whole(2), Whole(50)}

\* stopLoss ? Number(stopLoss) : undefined
StopLosses == Prices \cup {Undefined, NaN}

Rates == {Whole(0), Frac(1, 4), Frac(3, 5), Whole(1)}
AvgWins == {Whole(0 - 20), Whole(0), Whole(5), Whole(20)}
AvgLosses == {Whole(0 - 10), Whole(0), Whole(10), Whole(40)}

\* journal entries as the store holds them: pnl and pnlPct null until closed
JournalShapes ==
    {[status |-> "open", pnlPct |-> Null, pnl |-> Null, chain |-> "sol"],
     [status |-> "open", pnlPct |-> Whole(5), pnl |-> Whole(1), chain |-> "sol"],
     [status |-> "closed", pnlPct |-> Null, pnl |-> Null, chain |-> "sol"],
     [status |-> "closed", pnlPct |-> Whole(20), pnl |-> Whole(4), chain |-> "sol",
      narratives |-> <<"ai">>],
     [status |-> "closed", pnlPct |-> Whole(0 - 10), pnl |-> Whole(0 - 2),
      chain |-> "base", narratives |-> <<"ai", "meme">>],
     [status |-> "closed", pnlPct |-> Whole(0), pnl |-> Whole(0), chain |-> "sol"],
     [status |-> "closed", pnlPct |-> Whole(5), pnl |-> Whole(1)]}

Journals == UNION {[1..n -> JournalShapes] : n \in 0..MaxEntries}

\* Each calculator is called once, on arguments of its own, from the state
\* in which nothing has been called; Rest is what such a call leaves alone.
Rest == <<fs, now, calls, scanLog, tagged, proc, scan, run>>

CalcTargetPosition ==
    \E currentPrice \in Prices, totalSupply \in Amounts, targetUsd \in Amounts :
        /\ ret.op = NoCall.op
        /\ ret' = [op |-> "calcTargetPosition",
                   arg |-> <<currentPrice, totalSupply, targetUsd>>,
                   value |-> calcTargetPosition(currentPrice, totalSupply, targetUsd),
                   threw |-> FALSE]
        /\ UNCHANGED Rest

CalcRequiredMcap ==
    \E tokensHeld \in Amounts, totalSupply \in Amounts, targetUsd \in Amounts :
        /\ ret.op = NoCall.op
        /\ ret' = [op |-> "calcRequiredMcap",
                   arg |-> <<tokensHeld, totalSupply, targetUsd>>,
                   value |-> calcRequiredMcap(tokensHeld, totalSupply, targetUsd),
                   threw |-> FALSE]
        /\ UNCHANGED Rest

CalcRequiredMcapWithCurrent ==
    \E tokensHeld \in Amounts, totalSupply \in Amounts, targetUsd \in Amounts,
       currentMcap \in Amounts :
        /\ ret.op = NoCall.op
        /\ ret' = [op |-> "calcRequiredMcapWithCurrent",
                   arg |-> <<tokensHeld, totalSupply, targetUsd, currentMcap>>,
                   value |-> calcRequiredMcapWithCurrent(tokensHeld, totalSupply,
                                                        targetUsd, currentMcap),
                   threw |-> FALSE]
        /\ UNCHANGED Rest

CalcPositionSize ==
    \E portfolioValue \in Portfolios, riskPct \in RiskPcts, entryPrice \in Prices,
       stopLossPrice \in StopLosses :
        /\ ret.op = NoCall.op
        /\ ret' = [op |-> "calcPositionSize",
                   arg |-> <<portfolioValue, riskPct, entryPrice, stopLossPrice>>,
                   value |-> calcPositionSize(portfolioValue, riskPct, entryPrice,
                                             stopLossPrice),
                   threw |-> FALSE]
        /\ UNCHANGED Rest

CalcKellyCriterion ==
    \E winRate \in Rates, avgWin \in AvgWins, avgLoss \in AvgLosses :
        /\ ret.op = NoCall.op
        /\ ret' = [op |-> "calcKellyCriterion", arg |-> <<winRate, avgWin, avgLoss>>,
                   value |-> calcKellyCriterion(winRate, avgWin, avgLoss),
                   threw |-> FALSE]
        /\ UNCHANGED Rest

AnalyzeJournal ==
    \E entries \in Journals :
        /\ ret.op = NoCall.op
        /\ ret' = [op |-> "analyzeJournal", arg |-> <<entries>>,
                   value |-> analyzeJournal(entries), threw |-> FALSE]
        /\ UNCHANGED Rest

CalcInit == fs = {} /\ Fresh

CalcNext ==
    \/ CalcTargetPosition
    \/ CalcRequiredMcap
    \/ CalcRequiredMcapWithCurrent
    \/ CalcPositionSize
    \/ CalcKellyCriterion
    \/ AnalyzeJournal

SpecCalc == CalcInit /\ [][CalcNext]_vars

\* C17: for every winRate in [0,1] and every avgWin and avgLoss,
\* calcKellyCriterion returns a kellyPct with 0 <= kellyPct <= 25 and a
\* halfKellyPct that is half of it; with avgLoss = 0 or winRate <= 0 both
\* are 0 and an advisory recommendation comes with them.
C17_KellyBounded ==
    ret.op = "calcKellyCriterion" =>
        LET r == ret.value
        IN  /\ LessEq(Whole(0), r.kellyPct) /\ LessEq(r.kellyPct, Whole(25))
            /\ r.halfKellyPct = Over(r.kellyPct, Whole(2))
            /\ (ret.arg[3] = Whole(0) \/ LessEq(ret.arg[1], Whole(0))) =>
                  /\ r.kellyPct = Whole(0)
                  /\ r.recommendation \in {"No losses recorded", "No wins"}
            /\ ret.arg = <<Frac(3, 5), Whole(20), Whole(10)>> =>
                  r.kellyPct = Whole(25) /\ r.halfKellyPct = Frac(25, 2)

\* C18: for valid inputs calcPositionSize returns riskAmount = portfolioValue
\* x riskPct / 100; with a stop-loss strictly between 0 and the entry price
\* tokensToBuy = riskAmount / (entryPrice - stopLossPrice) and positionSize =
\* tokensToBuy x entryPrice, so that the loss at the stop is riskAmount; with
\* no such stop-loss positionSize = riskAmount; pctOfPortfolio = positionSize
\* / portfolioValue x 100; (10000, 2, 1.0, 0.8) gives 200, 1000, 1000, 10.
C18_PositionSize ==
    (ret.op = "calcPositionSize" /\ "error" \notin DOMAIN ret.value) =>
        LET portfolioValue == ret.arg[1]
            riskPct == ret.arg[2]
            entryPrice == ret.arg[3]
            stopLossPrice == ret.arg[4]
            r == ret.value
            between == /\ stopLossPrice \notin {Undefined, NaN}
                       /\ Less(Whole(0), stopLossPrice)
                       /\ Less(stopLossPrice, entryPrice)
        IN  /\ r.riskAmount = Over(Times(portfolioValue, riskPct), Whole(100))
            /\ between =>
                  /\ r.tokensToBuy = Over(r.riskAmount, Minus(entryPrice, stopLossPrice))
                  /\ r.positionSize = Times(r.tokensToBuy, entryPrice)
                  /\ Minus(r.positionSize, Times(r.tokensToBuy, stopLossPrice))
                        = r.riskAmount
            /\ ~between => r.positionSize = r.riskAmount
            /\ r.pctOfPortfolio = Times(Over(r.positionSize, portfolioValue), Whole(100))
            /\ ret.arg = <<Whole(10000), Whole(2), Whole(1), Frac(4, 5)>> =>
                  /\ r.riskAmount = Whole(200) /\ r.tokensToBuy = Whole(1000)
                  /\ r.positionSize = Whole(1000) /\ r.pctOfPortfolio = Whole(10)

C18_Witness ==
    /\ ret.op = "calcPositionSize"
    /\ ret.arg = <<Whole(10000), Whole(2), Whole(1), Frac(4, 5)>>
    /\ ret.value.positionSize = Whole(1000)

\* C19: no calculator throws; calcTargetPosition returns an object with an
\* error field when the price is zero or negative, calcRequiredMcap and
\* calcRequiredMcapWithCurrent when holdings or supply are, calcPositionSize
\* when portfolio value, risk % or entry price are, and for all other inputs
\* they return the figures and no error field.
C19_Checked ==
    [calcTargetPosition |-> {1}, calcRequiredMcap |-> {1, 2},
     calcRequiredMcapWithCurrent |-> {1, 2}, calcPositionSize |-> {1, 2, 3}]

C19_Figures ==
    [calcTargetPosition |-> {"tokensNeeded", "costAtCurrentPrice", "pctOfSupply",
                             "currentMcap"},
     calcRequiredMcap |-> {"requiredMcap", "requiredPrice", "multiplierNeeded"},
     calcRequiredMcapWithCurrent |-> {"requiredMcap", "requiredPrice",
                                      "multiplierNeeded", "currentMcap"},
     calcPositionSize |-> {"positionSize", "tokensToBuy", "riskAmount",
                           "pctOfPortfolio"}]

C19_ErrorField ==
    ret.op \in DOMAIN C19_Checked =>
        LET bad == \E i \in C19_Checked[ret.op] : LessEq(ret.arg[i], Whole(0))
        IN  /\ ~ret.threw
            /\ bad => DOMAIN ret.value = {"error"}
            /\ ~bad => /\ "error" \notin DOMAIN ret.value
                       /\ C19_Figures[ret.op] \subseteq DOMAIN ret.value

C19_Witness ==
    /\ ret.op = "calcRequiredMcap"
    /\ ret.arg[1] = Whole(3) /\ ret.arg[2] = Whole(0)
    /\ "error" \in DOMAIN ret.value

\* C20: analyzeJournal takes into account exactly the entries with status
\* closed and a non-null pnlPct: totalTrades is their number, wins (pnlPct >
\* 0) plus losses is totalTrades, winRate = wins / totalTrades, avgPnlPct is
\* the mean of their pnlPct and the per-chain trade counts add up to
\* totalTrades; with no such entry the result is zero-valued and carries a
\* message and no error.
RECURSIVE C20_Trades(_, _)
C20_Trades(byChain, chains) ==
    IF chains = {} THEN 0
    ELSE LET c == CHOOSE c \in chains : TRUE
         IN  byChain[c].trades + C20_Trades(byChain, chains \ {c})

C20_ClosedWithPnl ==
    ret.op = "analyzeJournal" =>
        LET entries == ret.arg[1]
            used == {i \in 1..Len(entries) :
                        entries[i].status = "closed" /\ entries[i].pnlPct # Null}
            won == {i \in used : Less(Whole(0), entries[i].pnlPct)}
            total == Cardinality(used)
            r == ret.value
        IN  /\ ~ret.threw
            /\ "error" \notin DOMAIN r
            /\ r.totalTrades = total
            /\ r.wins = Cardinality(won)
            /\ r.wins + r.losses = total
            /\ total = 0 =>
                  /\ r.wins = 0 /\ r.losses = 0 /\ r.winRate = Whole(0)
                  /\ r.avgPnlPct = Whole(0)
                  /\ "message" \in DOMAIN r
            /\ total > 0 =>
                  /\ r.winRate = Frac(Cardinality(won), total)
                  /\ r.avgPnlPct =
                        Over(Sum(Column(SelectSeq(entries,
                                                  LAMBDA e : e.status = "closed"
                                                             /\ e.pnlPct # Null),
                                        "pnlPct")),
                             Whole(total))
                  /\ C20_Trades(r.byChain, DOMAIN r.byChain) = total

\* three entries, of which one is open with a pnlPct, one closed without and
\* one closed with it
C20_Witness ==
    /\ ret.op = "analyzeJournal"
    /\ Len(ret.arg[1]) = 3
    /\ \E i \in 1..3 : ret.arg[1][i].status = "open" /\ ret.arg[1][i].pnlPct # Null
    /\ \E i \in 1..3 : ret.arg[1][i].status = "closed" /\ ret.arg[1][i].pnlPct = Null
    /\ ret.value.totalTrades = 1
    /\ ret.value.byChain = [c \in {"unknown"} |->
                               [trades |-> 1, wins |-> 1, totalPnl |-> Whole(1)]]

\* -------------------------------------------------------------- scanner.mjs
WEIGHTS ==
    [liquidity |-> Frac(25, 100), volume |-> Frac(20, 100), holders |-> Frac(20, 100),
     safety |-> Frac(20, 100), age |-> Frac(15, 100)]

\* Math.log10 and Math.exp on the arguments the scorers are given here, to
\* three digits
Log10(x) ==
    CASE x = Whole(2) -> Frac(301, 1000)
      [] x = Whole(9) -> Frac(954, 1000)
      [] x = Whole(10) -> Whole(1)
      [] x = Whole(12) -> Frac(1079, 1000)
      [] x = Whole(100) -> Whole(2)
      [] x = Whole(500) -> Frac(2699, 1000)
      [] x = Whole(1000) -> Whole(3)
      [] x = Whole(1000000) -> Whole(6)
      [] x = Infinity -> Infinity
      [] x = NaN -> NaN

Exp(x) ==
    CASE x = Whole(0) -> Whole(1)
      [] x = Frac(0 - 1, 2) -> Frac(607, 1000)
      [] x = Whole(0 - 1) -> Frac(368, 1000)
      [] x = Whole(0 - 10) -> Frac(1, 20000)
      [] x = Whole(0 - 12) -> Frac(1, 160000)
      [] x = NegInfinity -> Whole(0)
      [] x = NaN -> NaN

\* Math.max(0, Math.min(1, x))
Clamp(x) == MathMax(Whole(0), MathMin(Whole(1), x))

scoreLiquidity(priceImpactPct) ==
    IF priceImpactPct \in {Null, Undefined} THEN Whole(0)
    ELSE Clamp(Minus(Whole(1), Over(MathAbs(priceImpactPct), Whole(5))))

\* a scoreVolume without the clamp
scoreVolumeRaw(txCount24h) == Over(txCount24h, Whole(20))

scoreVolume(txCount24h) == Clamp(Over(txCount24h, Whole(20)))

scoreHolders(holderCount) ==
    IF LessEq(holderCount, Whole(1)) THEN Whole(0)
    ELSE Clamp(Over(Log10(holderCount), Whole(3)))

scoreSafety(riskCount) == Clamp(Minus(Whole(1), Over(riskCount, Whole(5))))

\* nowSeconds is Date.now() / 1000
scoreAge(createdAtUnix, nowSeconds) ==
    IF Not(createdAtUnix) THEN Frac(1, 2)
    ELSE LET ageSeconds == MathMax(Whole(0), Minus(nowSeconds, createdAtUnix))
         IN  Exp(Over(Negate(ageSeconds), Whole(86400)))

computeScore(metrics) ==
    Plus(Plus(Plus(Plus(Times(WEIGHTS.liquidity, metrics.liquidityScore),
                        Times(WEIGHTS.volume, metrics.volumeScore)),
                   Times(WEIGHTS.holders, metrics.holdersScore)),
              Times(WEIGHTS.safety, metrics.safetyScore)),
         Times(WEIGHTS.age, metrics.ageScore))

\* the outcome of a promise, as Promise.allSettled reports it
Rejected == [status |-> "rejected"]
Fulfilled(value) == [status |-> "fulfilled", value |-> value]

\* promise.catch(() => fallback)
Catch(promise, fallback) ==
    IF promise.status = "rejected" THEN Fulfilled(fallback) ELSE promise

\* Number(text) for the price impact texts of a quote
Number(text) ==
    CASE text = "0" -> Whole(0)
      [] text = "0.5" -> Frac(1, 2)
      [] text = "2.5" -> Frac(5, 2)
      [] text = "7" -> Whole(7)

\* txResult.value.filter(tx => tx.timestamp && (now - tx.timestamp) < 86400)
Recent(txs, nowSeconds) ==
    SelectSeq(txs, LAMBDA tx : /\ ~Not(Get(tx, "timestamp"))
                               /\ Less(Minus(nowSeconds, tx.timestamp), Whole(86400)))

\* analyzeToken from the results of Promise.allSettled on; the value of the
\* fourth result is an array whenever there is one
analyzeSettled(mint, createdAt, nowSeconds, holdersResult, safetyResult, quoteResult, txResult) ==
    LET hasHolders == holdersResult.status = "fulfilled" /\ holdersResult.value # Null
        h == holdersResult.value
        holderCount == IF hasHolders THEN OrZero(Get(h, "totalAccounts")) ELSE Whole(0)
        hasSafety == safetyResult.status = "fulfilled" /\ safetyResult.value # Null
        sf == safetyResult.value
        hasQuote == quoteResult.status = "fulfilled" /\ quoteResult.value # Null
        q == quoteResult.value
        priceImpactPct ==
            IF hasQuote
            THEN IF "priceImpactPct" \notin DOMAIN q THEN Whole(0)
                 ELSE Number(q.priceImpactPct)
            ELSE Null
        hasTxs == txResult.status = "fulfilled"
        txCount24h == IF hasTxs THEN Whole(Len(Recent(txResult.value, nowSeconds)))
                      ELSE Whole(0)
        metrics ==
            [mint |-> mint,
             liquidityScore |-> IF hasQuote THEN scoreLiquidity(priceImpactPct)
                                ELSE Whole(0),
             volumeScore |-> IF hasTxs THEN scoreVolume(txCount24h) ELSE Whole(0),
             holdersScore |-> IF hasHolders THEN scoreHolders(holderCount) ELSE Whole(0),
             safetyScore |-> IF hasSafety THEN scoreSafety(sf.riskCount) ELSE Whole(0),
             ageScore |-> scoreAge(createdAt, nowSeconds),
             holderCount |-> holderCount,
             txCount24h |-> txCount24h,
             riskCount |-> IF hasSafety THEN Plus(sf.riskCount, sf.warningCount)
                           ELSE Whole(0),
             priceImpactPct |-> priceImpactPct,
             topHolderPct |->
                 IF hasHolders /\ ~Not(Get(h, "top10ConcentrationPct"))
                 THEN h.top10ConcentrationPct ELSE Whole(100),
             hasCriticalRisk |-> hasSafety /\ Less(Whole(0), sf.riskCount),
             quotable |-> hasQuote]
    IN  Spread(metrics, [score |-> computeScore(metrics)])

\* an analyzeToken in which one failed fetch fails them all
analyzeTokenAllOrNothing(mint, createdAt, nowSeconds, holders, safety, quote, txs) ==
    IF \/ holders.status = "rejected" \/ safety.status = "rejected"
       \/ quote.status = "rejected" \/ txs.status = "rejected"
    THEN analyzeSettled(mint, createdAt, nowSeconds, Rejected, Rejected, Rejected,
                        Rejected)
    ELSE analyzeSettled(mint, createdAt, nowSeconds, holders, safety, quote, txs)

\* holders, safety, quote and txs are the outcomes of getTokenHolders,
\* getTokenSafety, getQuote and getEnhancedTransactions
analyzeToken(mint, createdAt, nowSeconds, holders, safety, quote, txs) ==
    analyzeSettled(mint, createdAt, nowSeconds, holders, Catch(safety, Null),
                   Catch(quote, Null), Catch(txs, <<>>))

\* a passesFilters that lets a token with a high score through
passesFiltersOrScore(metrics) ==
    \/ LessEq(Frac(1, 2), metrics.score)
    \/ /\ ~Less(metrics.holderCount, Whole(10))
       /\ ~Less(Whole(50), metrics.topHolderPct)
       /\ ~metrics.hasCriticalRisk
       /\ metrics.quotable

passesFilters(metrics) ==
    /\ ~Less(metrics.holderCount, Whole(10))
    /\ ~Less(Whole(50), metrics.topHolderPct)
    /\ ~metrics.hasCriticalRisk
    /\ metrics.quotable

\* ------------------------------------------ the scorers and the analysis, called
\* Date.now() / 1000 at the time of the calls
NowSeconds == Whole(950400)

Counts ==
    {NegInfinity, Whole(0 - 5), Whole(0), Frac(1, 2), Whole(1), Whole(2), Whole(9),
     Whole(10), Whole(12), Whole(100), Whole(500), Whole(1000), Whole(1000000),
     Infinity}

Impacts == Counts \cup {Null, Undefined}

CreatedAts ==
    {Undefined, Null, Whole(0), NegInfinity, Whole(0 - 86400), Whole(86400),
     Whole(864000), Whole(907200), NowSeconds, Whole(1000000), Infinity}

SubScores == {Whole(0), Frac(1, 4), Frac(1, 2), Whole(1)}

HolderOutcomes ==
    {Rejected, Fulfilled([total |-> Whole(0)]),
     Fulfilled([totalAccounts |-> Whole(9), top10ConcentrationPct |-> Whole(40)]),
     Fulfilled([totalAccounts |-> Whole(12), top10ConcentrationPct |-> Whole(40)]),
     Fulfilled([totalAccounts |-> Whole(12), top10ConcentrationPct |-> Whole(60)]),
     Fulfilled([totalAccounts |-> Whole(1000), top10ConcentrationPct |-> Whole(50)])}

SafetyOutcomes ==
    {Rejected, Fulfilled([riskCount |-> Whole(0), warningCount |-> Whole(0)]),
     Fulfilled([riskCount |-> Whole(0), warningCount |-> Whole(2)]),
     Fulfilled([riskCount |-> Whole(1), warningCount |-> Whole(0)])}

QuoteOutcomes ==
    {Rejected, Fulfilled([outAmount |-> "1"]),
     Fulfilled([outAmount |-> "1", priceImpactPct |-> "0.5"]),
     Fulfilled([outAmount |-> "1", priceImpactPct |-> "7"])}

\* n transactions of the last day, one of two days ago and one without time
Transactions(n) ==
    [i \in 1..(n + 2) |->
        IF i <= n THEN [signature |-> i, timestamp |-> Whole(950000)]
        ELSE IF i = n + 1 THEN [signature |-> i, timestamp |-> Whole(700000)]
        ELSE [signature |-> i]]

TxOutcomes ==
    {Rejected, Fulfilled(<<>>), Fulfilled(Transactions(10)), Fulfilled(Transactions(25))}

ScoreLiquidity ==
    \E priceImpactPct \in Impacts :
        /\ ret.op = NoCall.op
        /\ ret' = [op |-> "scoreLiquidity", arg |-> <<priceImpactPct>>,
                   value |-> scoreLiquidity(priceImpactPct), threw |-> FALSE]
        /\ UNCHANGED Rest

ScoreVolume ==
    \E txCount24h \in Counts :
        /\ ret.op = NoCall.op
        /\ ret' = [op |-> "scoreVolume", arg |-> <<txCount24h>>,
                   value |-> scoreVolume(txCount24h), threw |-> FALSE]
        /\ UNCHANGED Rest

ScoreHolders ==
    \E holderCount \in Counts :
        /\ ret.op = NoCall.op
        /\ ret' = [op |-> "scoreHolders", arg |-> <<holderCount>>,
                   value |-> scoreHolders(holderCount), threw |-> FALSE]
        /\ UNCHANGED Rest

ScoreSafety ==
    \E riskCount \in Counts :
        /\ ret.op = NoCall.op
        /\ ret' = [op |-> "scoreSafety", arg |-> <<riskCount>>,
                   value |-> scoreSafety(riskCount), threw |-> FALSE]
        /\ UNCHANGED Rest

ScoreAge ==
    \E createdAtUnix \in CreatedAts :
        /\ ret.op = NoCall.op
        /\ ret' = [op |-> "scoreAge", arg |-> <<createdAtUnix>>,
                   value |-> scoreAge(createdAtUnix, NowSeconds), threw |-> FALSE]
        /\ UNCHANGED Rest

ComputeScore ==
    \E liquidity \in SubScores, volume \in SubScores, holders \in SubScores,
       safety \in SubScores, age \in SubScores :
        /\ ret.op = NoCall.op
        /\ ret' = [op |-> "computeScore",
                   arg |-> <<[liquidityScore |-> liquidity, volumeScore |-> volume,
                              holdersScore |-> holders, safetyScore |-> safety,
                              ageScore |-> age]>>,
                   value |-> computeScore([liquidityScore |-> liquidity,
                                           volumeScore |-> volume,
                                           holdersScore |-> holders,
                                           safetyScore |-> safety, ageScore |-> age]),
                   threw |-> FALSE]
        /\ UNCHANGED Rest

AnalyzeToken ==
    \E createdAt \in {Undefined, Whole(907200)}, holders \in HolderOutcomes,
       safety \in SafetyOutcomes, quote \in QuoteOutcomes, txs \in TxOutcomes :
        /\ ret.op = NoCall.op
        /\ ret' = [op |-> "analyzeToken",
                   arg |-> <<"A", createdAt, holders, safety, quote, txs>>,
                   value |-> analyzeToken("A", createdAt, NowSeconds, holders, safety,
                                          quote, txs),
                   threw |-> FALSE]
        /\ UNCHANGED Rest

PassesFilters ==
    \E createdAt \in {Undefined, Whole(907200)}, holders \in HolderOutcomes,
       safety \in SafetyOutcomes, quote \in QuoteOutcomes, txs \in TxOutcomes :
        /\ ret.op = NoCall.op
        /\ ret' = [op |-> "passesFilters",
                   arg |-> <<analyzeToken("A", createdAt, NowSeconds, holders, safety,
                                          quote, txs)>>,
                   value |-> passesFilters(analyzeToken("A", createdAt, NowSeconds,
                                                        holders, safety, quote, txs)),
                   threw |-> FALSE]
        /\ UNCHANGED Rest

ScoreInit == fs = {} /\ Fresh

ScoreNext ==
    \/ ScoreLiquidity
    \/ ScoreVolume
    \/ ScoreHolders
    \/ ScoreSafety
    \/ ScoreAge
    \/ ComputeScore
    \/ AnalyzeToken
    \/ PassesFilters

SpecScore == ScoreInit /\ [][ScoreNext]_vars

\* C11: for every numeric raw input each of the five scorers returns a value
\* in [0,1]; the weights sum to 1; the composite score is in [0,1], is 1
\* when the five sub-scores are 1 and 0 when they are 0.
C11_InUnit(x) == LessEq(Whole(0), x) /\ LessEq(x, Whole(1))

C11_Scorers == {"scoreLiquidity", "scoreVolume", "scoreHolders", "scoreSafety", "scoreAge"}

C11_ScoresInUnit ==
    /\ Plus(Plus(Plus(Plus(WEIGHTS.liquidity, WEIGHTS.volume), WEIGHTS.holders),
                 WEIGHTS.safety), WEIGHTS.age) = Whole(1)
    /\ ret.op \in C11_Scorers => C11_InUnit(ret.value)
    /\ ret.op = "analyzeToken" => C11_InUnit(ret.value.score)
    /\ ret.op = "computeScore" =>
          /\ C11_InUnit(ret.value)
          /\ (\A k \in DOMAIN ret.arg[1] : ret.arg[1][k] = Whole(1)) => ret.value = Whole(1)
          /\ (\A k \in DOMAIN ret.arg[1] : ret.arg[1][k] = Whole(0)) => ret.value = Whole(0)

\* a million transactions score 1, and an impact of minus infinity scores 0
C11_Witness ==
    \/ /\ ret.op = "scoreVolume" /\ ret.arg[1] = Whole(1000000) /\ ret.value = Whole(1)
    \/ /\ ret.op = "scoreLiquidity" /\ ret.arg[1] = NegInfinity /\ ret.value = Whole(0)

\* C12: a token passes the filter if and only if holderCount >= 10, the
\* top-10 concentration is <= 50, it has no critical risk and a quote was
\* obtained; the outcome is the same whatever its score and sub-scores.
C12_Scores == {"score", "liquidityScore", "volumeScore", "holdersScore", "safetyScore",
               "ageScore"}

C12_FilterIff ==
    ret.op = "passesFilters" =>
        LET metrics == ret.arg[1]
        IN  /\ ret.value <=> /\ LessEq(Whole(10), metrics.holderCount)
                             /\ LessEq(metrics.topHolderPct, Whole(50))
                             /\ ~metrics.hasCriticalRisk
                             /\ metrics.quotable
            /\ \A k \in C12_Scores, x \in SubScores :
                  passesFilters([metrics EXCEPT ![k] = x]) = ret.value

\* nine holders and a score above one half: not passed
C12_Witness ==
    /\ ret.op = "passesFilters"
    /\ ret.arg[1].holderCount = Whole(9)
    /\ Less(Frac(1, 2), ret.arg[1].score)
    /\ ~ret.arg[1].hasCriticalRisk /\ ret.arg[1].quotable
    /\ ret.value = FALSE

\* C13: for every subset of the four fetches of analyzeToken that fails the
\* analysis completes and returns metrics; the fields of a component are
\* what they are when the other three fetches all fail and what they are
\* when the other three all succeed, and a component whose fetch failed has
\* sub-score 0.
C13_Holders(m) == <<m.holderCount, m.holdersScore, m.topHolderPct>>
C13_Safety(m) == <<m.riskCount, m.safetyScore, m.hasCriticalRisk>>
C13_Quote(m) == <<m.priceImpactPct, m.liquidityScore, m.quotable>>
C13_Txs(m) == <<m.txCount24h, m.volumeScore>>

\* the other fetches: all failed, all succeeded
C13_Others ==
    {[holders |-> Rejected, safety |-> Rejected, quote |-> Rejected, txs |-> Rejected],
     [holders |-> Fulfilled([totalAccounts |-> Whole(500),
                             top10ConcentrationPct |-> Whole(30)]),
      safety |-> Fulfilled([riskCount |-> Whole(2), warningCount |-> Whole(1)]),
      quote |-> Fulfilled([outAmount |-> "1", priceImpactPct |-> "2.5"]),
      txs |-> Fulfilled(Transactions(2))]}

C13_Independent ==
    ret.op = "analyzeToken" =>
        LET createdAt == ret.arg[2]
            holders == ret.arg[3]
            safety == ret.arg[4]
            quote == ret.arg[5]
            txs == ret.arg[6]
            m == ret.value
        IN  /\ ~ret.threw
            /\ m.score = computeScore(m)
            /\ holders = Rejected => m.holdersScore = Whole(0)
            /\ safety = Rejected => m.safetyScore = Whole(0)
            /\ quote = Rejected => m.liquidityScore = Whole(0)
            /\ txs = Rejected => m.volumeScore = Whole(0)
            /\ \A o \in C13_Others :
                  /\ C13_Holders(analyzeToken("A", createdAt, NowSeconds, holders,
                                              o.safety, o.quote, o.txs)) = C13_Holders(m)
                  /\ C13_Safety(analyzeToken("A", createdAt, NowSeconds, o.holders,
                                             safety, o.quote, o.txs)) = C13_Safety(m)
                  /\ C13_Quote(analyzeToken("A", createdAt, NowSeconds, o.holders,
                                            o.safety, quote, o.txs)) = C13_Quote(m)
                  /\ C13_Txs(analyzeToken("A", createdAt, NowSeconds, o.holders,
                                          o.safety, o.quote, txs)) = C13_Txs(m)

\* holders and safety fail, the quote and the transactions arrive
C13_Witness ==
    /\ ret.op = "analyzeToken"
    /\ ret.arg[3] = Rejected /\ ret.arg[4] = Rejected
    /\ ret.arg[5] # Rejected /\ ret.arg[6] # Rejected
    /\ ret.value.holdersScore = Whole(0) /\ ret.value.safetyScore = Whole(0)
    /\ ret.value.liquidityScore = Frac(9, 10) /\ ret.value.volumeScore = Whole(1)

\* ------------------------------------------------------- the scan command
batchSize == 5
analysisBatchSize == 5
MaxLimit == 3

WSOL == "So11111111111111111111111111111111111111112"
MintNames ==
    <<"m1", "m2", "m3", "m4", "m5", "m6", "m7", "m8", "m9", "m10", "m11", "m12", "m13",
      "m14", "m15", "m16">>
Dexes == <<"Raydium AMM v4", "PumpSwap">>

\* a requireEnv that prints the error and goes on
requireEnvAndGoOn(env, name) ==
    IF name \in env
    THEN [exited |-> FALSE, stderr |-> Null, code |-> 0]
    ELSE [exited |-> FALSE, stderr |-> [error |-> TRUE, names |-> name], code |-> 0]

\* requireEnv: the value, or the error printed and the exit code
requireEnv(env, name) ==
    IF name \in env
    THEN [exited |-> FALSE, stderr |-> Null, code |-> 0]
    ELSE [exited |-> TRUE, stderr |-> [error |-> TRUE, names |-> name], code |-> 1]

\* the signatures getSolNewPools returns: n of them
Sigs(n) ==
    [k \in 1..n |-> [signature |-> k, dex |-> Dexes[1 + (k % 2)],
                     blockTime |-> Whole(864000)]]

\* What conn.getParsedTransaction gives for signature k.  "each": a
\* transaction with a mint of its own, listed twice and after wrapped SOL;
\* "pairs": its own mint and the next signature's, without block time;
\* "holes": every other call fails or finds nothing; "none": no call gives a
\* transaction with balances.
TxPatterns == {"each", "pairs", "holes", "none"}

Balance(k) == [mint |-> MintNames[k]]

ParsedTransaction(pattern, k) ==
    CASE pattern = "each" ->
            Fulfilled([blockTime |-> IF k % 3 = 0 THEN NowSeconds ELSE Whole(907200),
                       meta |-> [postTokenBalances |->
                                    <<[mint |-> WSOL], Balance(k), Balance(k)>>]])
      [] pattern = "pairs" ->
            Fulfilled([meta |-> [postTokenBalances |-> <<Balance(k), Balance(k + 1)>>]])
      [] pattern = "holes" ->
            IF k % 4 = 1 THEN Rejected
            ELSE IF k % 4 = 3 THEN Fulfilled(Null)
            ELSE Fulfilled([blockTime |-> Whole(907200),
                            meta |-> [postTokenBalances |-> <<Balance(k)>>]])
      [] pattern = "none" ->
            IF k % 2 = 1 THEN Rejected ELSE Fulfilled([blockTime |-> Whole(907200)])

\* [...new Set(list)]
RECURSIVE Distinct(_)
Distinct(list) ==
    IF list = <<>> THEN <<>>
    ELSE LET front == Distinct(SubSeq(list, 1, Len(list) - 1))
             last == list[Len(list)]
         IN  IF Includes(front, last) THEN front ELSE Append(front, last)

\* one task of a batch of extractMintsFromSignatures, given what
\* getParsedTransaction did
TxTask(sig, outcome) ==
    IF outcome.status = "rejected" THEN Null
    ELSE IF outcome.value = Null \/ "meta" \notin DOMAIN outcome.value THEN Null
    ELSE LET tx == outcome.value
             postBalances == IF "postTokenBalances" \in DOMAIN tx.meta
                             THEN tx.meta.postTokenBalances ELSE <<>>
             kept == SelectSeq(postBalances, LAMBDA bal : bal.mint # WSOL)
         IN  [mints |-> Distinct([j \in 1..Len(kept) |-> kept[j].mint]),
              blockTime |-> IF "blockTime" \in DOMAIN tx /\ ~Not(tx.blockTime)
                            THEN tx.blockTime ELSE sig.blockTime,
              dex |-> sig.dex, signature |-> sig.signature]

\* mints.has(mint)
HasMint(mints, mint) == \E j \in 1..Len(mints) : mints[j].mint = mint

\* an inner loop in which a later transaction overwrites what the map holds
RECURSIVE SetMintsLastSeen(_, _, _)
SetMintsLastSeen(mints, r, j) ==
    IF j > Len(r.mints) THEN mints
    ELSE LET seen == [mint |-> r.mints[j], createdAt |-> r.blockTime,
                      dex |-> r.dex, signature |-> r.signature]
         IN  SetMintsLastSeen(IF HasMint(mints, r.mints[j])
                              THEN [i \in 1..Len(mints) |->
                                       IF mints[i].mint = r.mints[j] THEN seen
                                       ELSE mints[i]]
                              ELSE Append(mints, seen),
                              r, j + 1)

\* the inner loop over r.mints and the loop over the results of a batch
RECURSIVE SetMints(_, _, _)
SetMints(mints, r, j) ==
    IF j > Len(r.mints) THEN mints
    ELSE SetMints(IF HasMint(mints, r.mints[j]) THEN mints
                  ELSE Append(mints, [mint |-> r.mints[j], createdAt |-> r.blockTime,
                                      dex |-> r.dex, signature |-> r.signature]),
                  r, j + 1)

RECURSIVE Collect(_, _, _)
Collect(mints, results, k) ==
    IF k > Len(results) THEN mints
    ELSE Collect(IF results[k] = Null THEN mints ELSE SetMints(mints, results[k], 1),
                 results, k + 1)

\* list.slice(i, i + size), as the indices it takes
BatchOfSix(n, i, size) == {k \in 1..n : i < k /\ k <= i + size + 1}

Batch(n, i, size) == {k \in 1..n : i < k /\ k <= i + size}

\* What the four fetches of analyzeToken give for the entry at position j:
\* the scan walks through these profiles in steps of scan.step.
Profiles ==
    <<[holders |-> Fulfilled([totalAccounts |-> Whole(1000),
                              top10ConcentrationPct |-> Whole(50)]),
       safety |-> Fulfilled([riskCount |-> Whole(0), warningCount |-> Whole(0)]),
       quote |-> Fulfilled([outAmount |-> "1", priceImpactPct |-> "0.5"]),
       txs |-> Fulfilled(Transactions(25))],
      [holders |-> Fulfilled([totalAccounts |-> Whole(12),
                              top10ConcentrationPct |-> Whole(40)]),
       safety |-> Fulfilled([riskCount |-> Whole(0), warningCount |-> Whole(2)]),
       quote |-> Fulfilled([outAmount |-> "1", priceImpactPct |-> "2.5"]),
       txs |-> Fulfilled(Transactions(10))],
      [holders |-> Fulfilled([totalAccounts |-> Whole(9),
                              top10ConcentrationPct |-> Whole(40)]),
       safety |-> Fulfilled([riskCount |-> Whole(0), warningCount |-> Whole(0)]),
       quote |-> Fulfilled([outAmount |-> "1"]),
       txs |-> Fulfilled(Transactions(25))],
      [holders |-> Fulfilled([totalAccounts |-> Whole(12),
                              top10ConcentrationPct |-> Whole(40)]),
       safety |-> Rejected,
       quote |-> Fulfilled([outAmount |-> "1", priceImpactPct |-> "7"]),
       txs |-> Rejected],
      [holders |-> Fulfilled([totalAccounts |-> Whole(1000),
                              top10ConcentrationPct |-> Whole(50)]),
       safety |-> Fulfilled([riskCount |-> Whole(1), warningCount |-> Whole(0)]),
       quote |-> Fulfilled([outAmount |-> "1"]),
       txs |-> Fulfilled(Transactions(25))],
      [holders |-> Fulfilled([totalAccounts |-> Whole(100),
                              top10ConcentrationPct |-> Whole(40)]),
       safety |-> Fulfilled([riskCount |-> Whole(0), warningCount |-> Whole(0)]),
       quote |-> Fulfilled([outAmount |-> "1"]),
       txs |-> Fulfilled(Transactions(25))],
      [holders |-> Rejected,
       safety |-> Fulfilled([riskCount |-> Whole(0), warningCount |-> Whole(0)]),
       quote |-> Rejected,
       txs |-> Fulfilled(<<>>)]>>

Steps == {1, 3}

Profile(step, j) == Profiles[1 + ((j * step) % Len(Profiles))]

\* the task of an analysis batch for the entry at position j, with the two
\* fields the scan adds to what analyzeToken returns
Analysis(entries, step, j) ==
    Spread(analyzeToken(entries[j].mint, entries[j].createdAt, NowSeconds,
                        Profile(step, j).holders, Profile(step, j).safety,
                        Profile(step, j).quote, Profile(step, j).txs),
           [discoveryDex |-> entries[j].dex, discoverySignature |-> entries[j].signature])

\* Math.round(x * scale) / scale
Round(x, scale) ==
    LET y == Times(x, Whole(scale))
    IN  Over(Whole((2 * y.n + y.d) \div (2 * y.d)), Whole(scale))

\* list.sort((a, b) => a.score - b.score): the lowest score first
RECURSIVE SortAscending(_)
SortAscending(list) ==
    IF list = <<>> THEN <<>>
    ELSE LET front == SortAscending(SubSeq(list, 1, Len(list) - 1))
             last == list[Len(list)]
             keep == {j \in 1..Len(front) : ~Less(last.score, front[j].score)}
             at == IF keep = {} THEN 0 ELSE CHOOSE j \in keep : \A l \in keep : l <= j
         IN  SubSeq(front, 1, at) \o <<last>> \o SubSeq(front, at + 1, Len(front))

\* list.sort((a, b) => b.score - a.score): stable, the highest score first
RECURSIVE SortByScore(_)
SortByScore(list) ==
    IF list = <<>> THEN <<>>
    ELSE LET front == SortByScore(SubSeq(list, 1, Len(list) - 1))
             last == list[Len(list)]
             keep == {j \in 1..Len(front) : ~Less(front[j].score, last.score)}
             at == IF keep = {} THEN 0 ELSE CHOOSE j \in keep : \A l \in keep : l <= j
         IN  SubSeq(front, 1, at) \o <<last>> \o SubSeq(front, at + 1, Len(front))

\* steps 4 and 5 of scanNewTokens and what it returns
Ranked(analyzed, limit, discovered) ==
    LET filtered == SortByScore(SelectSeq(analyzed, passesFilters))
        top == SubSeq(filtered, 1, IF Len(filtered) < limit THEN Len(filtered) ELSE limit)
        tokens ==
            [r \in 1..Len(top) |->
                [rank |-> r, mint |-> top[r].mint, score |-> Round(top[r].score, 1000),
                 breakdown |-> [liquidity |-> Round(top[r].liquidityScore, 100),
                                volume |-> Round(top[r].volumeScore, 100),
                                holders |-> Round(top[r].holdersScore, 100),
                                safety |-> Round(top[r].safetyScore, 100),
                                age |-> Round(top[r].ageScore, 100)],
                 holderCount |-> top[r].holderCount, txCount24h |-> top[r].txCount24h,
                 riskCount |-> top[r].riskCount, priceImpactPct |-> top[r].priceImpactPct,
                 topHolderPct |-> top[r].topHolderPct,
                 discoveryDex |-> top[r].discoveryDex]]
    IN  [tokens |-> tokens, totalDiscovered |-> discovered,
         totalAnalyzed |-> Len(analyzed), totalPassedFilters |-> Len(filtered),
         returned |-> Len(tokens)]

\* the record cmdScan hands to addScanRecord; bestScore in thousandths
ScanRecord(result) ==
    [topMints |-> [j \in 1..(IF Len(result.tokens) < 5 THEN Len(result.tokens) ELSE 5) |->
                       result.tokens[j].mint],
     bestScore |-> IF result.tokens = <<>> THEN Num(0)
                   ELSE Num(Times(result.tokens[1].score, Whole(1000)).n)]

Envs == {{}, {"HELIUS_API_KEY"}}

\* limit * 3
discoveryLimit(limit) == limit * 3

\* the tasks of a batch are started: one request for a transaction, four
\* for an analysis
Started(s, pc, n, i, size, perTask) ==
    [s EXCEPT !.pc = pc, !.i = i, !.pending = Batch(n, i, size), !.batch = @ + 1,
              !.requests = @ + perTask * Cardinality(Batch(n, i, size))]

\* scanNewTokens has returned, cmdScan has printed the result
Finished(s, result) == [s EXCEPT !.pc = "done", !.pending = {}, !.result = result]

\* cmdScan up to the first await of scanNewTokens: requireEnv, then the four
\* getSignaturesForAddress calls of getSolNewPools
RunScan ==
    \E limit \in 1..MaxLimit, env \in Envs :
        /\ scan.pc = "idle"
        /\ LET e == requireEnv(env, "HELIUS_API_KEY")
           IN  scan' = IF e.exited
                       THEN [scan EXCEPT !.pc = "exited", !.env = env, !.limit = limit,
                                         !.stderr = e.stderr, !.code = e.code]
                       ELSE [scan EXCEPT !.pc = "pools", !.env = env, !.limit = limit,
                                         !.stderr = e.stderr, !.requests = 4]
        /\ UNCHANGED <<fs, now, ret, calls, scanLog, tagged, proc, run>>

\* cmdScan after scanNewTokens returned: addScanRecord
Recorded(result) ==
    /\ fs' = addScanRecord(fs, ScanRecord(result), now).fs
    /\ scanLog' = Append(scanLog, Spread([timestamp |-> now], ScanRecord(result)))
    /\ UNCHANGED <<now, ret, calls, tagged, proc, run>>

NotRecorded == UNCHANGED <<fs, now, ret, calls, scanLog, tagged, proc, run>>

\* getSolNewPools returns n signatures; the first batch of transaction
\* fetches starts, or the scan ends
PoolsFound ==
    \E n \in 0..discoveryLimit(MaxLimit), pattern \in TxPatterns, step \in Steps :
        /\ scan.pc = "pools"
        /\ n <= discoveryLimit(scan.limit)
        /\ n = 0 => pattern = "none" /\ step = 1
        /\ IF n = 0
           THEN /\ scan' = Finished([scan EXCEPT !.pattern = pattern, !.step = step],
                                     [tokens |-> <<>>,
                                      message |-> "No recent pool creations found"])
                /\ Recorded([tokens |-> <<>>,
                             message |-> "No recent pool creations found"])
           ELSE /\ scan' = Started([scan EXCEPT !.sigs = Sigs(n), !.pattern = pattern,
                                                !.step = step],
                                   "extract", n, 0, batchSize, 1)
                /\ NotRecorded

\* one getParsedTransaction of the batch in flight settles
TxSettled ==
    \E k \in scan.pending :
        /\ scan.pc = "extract"
        /\ scan' = [scan EXCEPT !.pending = @ \ {k}]
        /\ NotRecorded

\* Promise.all of the batch has resolved: its results go into the map, and
\* the next batch starts, or the analysis does, or the scan ends
BatchExtracted ==
    /\ scan.pc = "extract" /\ scan.pending = {}
    /\ LET n == Len(scan.sigs)
           size == Cardinality(Batch(n, scan.i, batchSize))
           results == [j \in 1..size |->
                          TxTask(scan.sigs[scan.i + j],
                                 ParsedTransaction(scan.pattern, scan.i + j))]
           mints == Collect(scan.mints, results, 1)
           i == scan.i + batchSize
       IN  IF i < n /\ Len(mints) < discoveryLimit(scan.limit)
           THEN /\ scan' = Started([scan EXCEPT !.mints = mints], "extract", n, i,
                                   batchSize, 1)
                /\ NotRecorded
           ELSE IF Len(mints) = 0
           THEN /\ scan' = Finished(scan,
                                     [tokens |-> <<>>,
                                      message |-> "Could not extract token mints from recent transactions"])
                /\ Recorded([tokens |-> <<>>,
                             message |-> "Could not extract token mints from recent transactions"])
           ELSE /\ scan' = Started([scan EXCEPT !.mints = mints], "analyze", Len(mints),
                                   0, analysisBatchSize, 4)
                /\ NotRecorded

\* one analyzeToken of the batch in flight settles
AnalysisSettled ==
    \E k \in scan.pending :
        /\ scan.pc = "analyze"
        /\ scan' = [scan EXCEPT !.pending = @ \ {k}]
        /\ NotRecorded

\* Promise.allSettled of the batch has resolved: its metrics are pushed, and
\* the next batch starts, or the tokens are filtered, ranked, returned,
\* printed and recorded
BatchAnalyzed ==
    /\ scan.pc = "analyze" /\ scan.pending = {}
    /\ LET n == Len(scan.mints)
           size == Cardinality(Batch(n, scan.i, analysisBatchSize))
           analyzed == scan.analyzed \o
                       [j \in 1..size |-> Analysis(scan.mints, scan.step, scan.i + j)]
           i == scan.i + analysisBatchSize
       IN  IF i < n /\ Len(analyzed) < scan.limit * 2
           THEN /\ scan' = Started([scan EXCEPT !.analyzed = analyzed], "analyze", n, i,
                                   analysisBatchSize, 4)
                /\ NotRecorded
           ELSE /\ scan' = Finished([scan EXCEPT !.analyzed = analyzed],
                                     Ranked(analyzed, scan.limit, n))
                /\ Recorded(Ranked(analyzed, scan.limit, n))

ScannerInit == fs = {} /\ Fresh

ScannerNext ==
    \/ RunScan
    \/ PoolsFound
    \/ TxSettled
    \/ BatchExtracted
    \/ AnalysisSettled
    \/ BatchAnalyzed

SpecScanner == ScannerInit /\ [][ScannerNext]_vars

\* C14: every analyzed token has its score before the filter is applied; the
\* returned list holds min(limit, survivors) tokens, all of them survivors of
\* the filter and none twice, no survivor left out has a higher score than
\* a returned one, the scores do not increase down the list and the ranks
\* are 1..n.
C14_Survivors ==
    {j \in 1..Len(scan.analyzed) :
        /\ LessEq(Whole(10), scan.analyzed[j].holderCount)
        /\ LessEq(scan.analyzed[j].topHolderPct, Whole(50))
        /\ ~scan.analyzed[j].hasCriticalRisk
        /\ scan.analyzed[j].quotable}

C14_Ranked ==
    (scan.pc = "done" /\ "returned" \in DOMAIN scan.result) =>
        LET a == scan.analyzed
            tokens == scan.result.tokens
            n == Len(tokens)
            \* where the token of rank r is in the analyzed list
            at == [r \in 1..n |-> CHOOSE j \in 1..Len(a) : a[j].mint = tokens[r].mint]
        IN  /\ \A j \in 1..Len(a) : a[j].score = computeScore(a[j])
            /\ n = IF Cardinality(C14_Survivors) < scan.limit
                   THEN Cardinality(C14_Survivors) ELSE scan.limit
            /\ \A r \in 1..n :
                  /\ tokens[r].rank = r
                  /\ \E j \in C14_Survivors : a[j].mint = tokens[r].mint
                  /\ tokens[r].score = Round(a[at[r]].score, 1000)
            /\ \A r \in 1..n, q \in 1..n : r # q => tokens[r].mint # tokens[q].mint
            /\ \A r \in 1..(n - 1) :
                  /\ LessEq(tokens[r + 1].score, tokens[r].score)
                  /\ LessEq(a[at[r + 1]].score, a[at[r]].score)
            /\ \A j \in C14_Survivors :
                  (\A r \in 1..n : at[r] # j) =>
                      \A r \in 1..n : LessEq(a[j].score, a[at[r]].score)

\* more survivors than the limit, and the first token returned is not the
\* first survivor analyzed
C14_Witness ==
    /\ scan.pc = "done" /\ "returned" \in DOMAIN scan.result
    /\ Cardinality(C14_Survivors) > scan.limit
    /\ scan.result.returned = 2
    /\ Less(scan.result.tokens[2].score, scan.result.tokens[1].score)
    /\ \E j \in C14_Survivors :
          /\ scan.analyzed[j].mint = scan.result.tokens[1].mint
          /\ \E l \in C14_Survivors : l < j

\* C15: at most 5 fetches of transaction details are outstanding during the
\* extraction and at most 5 analyses are in progress, and a batch starts
\* only when every task of the batch before it has settled.
C15_Step ==
    /\ Cardinality(scan'.pending) <= 5
    /\ scan'.batch # scan.batch => scan.pending = {}

C15_Batches == [][C15_Step]_vars

\* the second batch of analyses, five of them in progress, after two batches
\* of transaction fetches
C15_Witness ==
    /\ scan.pc = "analyze" /\ scan.i = 5 /\ scan.batch = 4
    /\ Cardinality(scan.pending) = 5

\* C16: when HELIUS_API_KEY is not set the scan ends with an error object on
\* stderr that names the variable and with a non-zero exit code, before any
\* network request is made and without a scan record being written.
C16_NoKey ==
    (scan.pc # "idle" /\ "HELIUS_API_KEY" \notin scan.env) =>
        /\ scan.pc = "exited"
        /\ scan.stderr = [error |-> TRUE, names |-> "HELIUS_API_KEY"]
        /\ scan.code # 0
        /\ scan.requests = 0
        /\ fs = {} /\ scanLog = <<>>

C16_Witness == scan.pc = "exited" /\ scan.code = 1 /\ scan.requests = 0

\* ------------------------------------------------------------------ C21
\* the entries analyzeJournal analyses, in stored order
C21_Closed(entries) ==
    SelectSeq(entries, LAMBDA e : e.status = "closed"
                                  /\ Get(e, "pnlPct") \notin {Null, Undefined})

\* the length of the longest run of consecutive wins (win = TRUE) or of
\* consecutive losses (win = FALSE)
C21_LongestRun(closed, win) ==
    LET runs == {<<i, j>> \in (1..Len(closed)) \X (1..Len(closed)) :
                    i <= j /\ \A k \in i..j : IsWin(closed[k]) = win}
    IN  IF runs = {} THEN 0
        ELSE CHOOSE n \in 1..Len(closed) :
                 /\ \E r \in runs : r[2] - r[1] + 1 = n
                 /\ \A r \in runs : r[2] - r[1] + 1 <= n

\* the length of the run the sequence ends with, negative for a run of losses
C21_FinalRun(closed) ==
    LET last == IsWin(closed[Len(closed)])
        n == CHOOSE m \in 1..Len(closed) :
                 /\ \A k \in (Len(closed) - m + 1)..Len(closed) : IsWin(closed[k]) = last
                 /\ m = Len(closed) \/ IsWin(closed[Len(closed) - m]) # last
    IN  IF last THEN n ELSE 0 - n

pollInterval == 2000
defaultMaxWaitMs == 60000

\* status.toLowerCase() for the spellings a response is given here
ToLowerCase(text) ==
    CASE text = "COMPLETED" -> "completed"
      [] text = "Failed" -> "failed"
      [] OTHER -> text

\* (data.status || "").toLowerCase()
StatusOf(data) == IF "status" \in DOMAIN data THEN ToLowerCase(data.status) ELSE ""

\* data.error || data.message || "Job failed"
ErrorOf(data) ==
    IF "error" \in DOMAIN data THEN data.error
    ELSE IF "message" \in DOMAIN data THEN data.message
    ELSE "Job failed"

\* `Job timed out after ${maxWaitMs / 1000}s`
TimedOut(maxWaitMs) == "Job timed out after " \o ToString(maxWaitMs \div 1000) \o "s"

\* The head of the while loop at time t: the test of line 52 and, when it
\* holds, bankrHeaders and the start of the fetch, all in one turn of the
\* event loop.
Loop(r, t) ==
    IF t - r.start < r.maxWaitMs
    THEN IF requireEnv(r.env, "BANKR_API_KEY").exited
         THEN [r EXCEPT !.pc = "exited"]
         ELSE [r EXCEPT !.pc = "fetch", !.requests = @ + 1, !.requested = t]
    ELSE [r EXCEPT !.pc = "returned",
                   !.result = [success |-> FALSE, jobId |-> r.jobId,
                               error |-> TimedOut(r.maxWaitMs)]]

\* What pollJob does with a response: lines 57 to 73.
Handle(r, res, t) ==
    IF ~res.ok THEN [r EXCEPT !.pc = "threw", !.response = res]
    ELSE IF StatusOf(res.data) \in {"completed", "success", "done"}
    THEN [r EXCEPT !.pc = "returned", !.response = res,
                   !.result = Spread([success |-> TRUE, jobId |-> r.jobId], res.data)]
    ELSE IF StatusOf(res.data) \in {"failed", "error"}
    THEN [r EXCEPT !.pc = "returned", !.response = res,
                   !.result = Spread([success |-> FALSE, jobId |-> r.jobId,
                                      error |-> ErrorOf(res.data)], res.data)]
    ELSE [r EXCEPT !.pc = "sleep", !.response = res, !.slept = t]

\* ------------------------------------------------------- pollJob, called
MaxWaits == {0, 2000, 5000, defaultMaxWaitMs}

\* how long a status request takes, and how late a timer may fire
Latencies == {0, 1000, 3000}
Lateness == {0, 1000}

PollEnvs == {{}, {"BANKR_API_KEY"}}

\* what the status request can return: a non-2xx response, or the JSON object
\* of a 2xx response, which is the provider's to choose
Responses ==
    {[ok |-> FALSE, data |-> <<>>]}
    \cup {[ok |-> TRUE, data |-> d] :
            d \in {<<>>, [status |-> "pending"], [status |-> "completed"],
                   [status |-> "success"], [status |-> "done"],
                   [status |-> "COMPLETED", response |-> "bought"],
                   [status |-> "failed"], [status |-> "Failed", error |-> "no route"],
                   [status |-> "error", message |-> "rejected"],
                   [success |-> TRUE, status |-> "completed", response |-> "bought"],
                   [success |-> TRUE, status |-> "failed", error |-> "no route"],
                   [success |-> TRUE, status |-> "pending"]}}

\* pollJob(jobId, maxWaitMs) up to its first await
PollJob ==
    \E maxWaitMs \in MaxWaits, env \in PollEnvs :
        /\ run.pc = "idle"
        /\ run' = Loop([pc |-> "called", jobId |-> "job1", maxWaitMs |-> maxWaitMs,
                        env |-> env, start |-> now, requests |-> 0, requested |-> 0,
                        slept |-> 0, response |-> [ok |-> FALSE, data |-> <<>>],
                        result |-> <<>>], now)
        /\ UNCHANGED <<fs, now, ret, calls, scanLog, tagged, proc, scan>>

\* the status request returns
Responded ==
    \E res \in Responses, latency \in Latencies :
        /\ run.pc = "fetch"
        /\ now' = now + latency
        /\ run' = Handle(run, res, now')
        /\ UNCHANGED <<fs, ret, calls, scanLog, tagged, proc, scan>>

\* the timer of line 73 fires and the loop goes round
Woke ==
    \E late \in Lateness :
        /\ run.pc = "sleep"
        /\ now' = now + pollInterval + late
        /\ run' = Loop(run, now')
        /\ UNCHANGED <<fs, ret, calls, scanLog, tagged, proc, scan>>

PollInit == fs = {} /\ Fresh

PollNext ==
    \/ PollJob
    \/ Responded
    \/ Woke

SpecPoll == PollInit /\ [][PollNext]_vars

\* every status request returns and every timer fires
SpecPollFair == SpecPoll /\ WF_vars(Responded) /\ WF_vars(Woke)

\* ------------------------------------------------------------------ C22
C22_Polling == run.pc \in {"fetch", "sleep", "returned", "threw", "exited"}

\* the job status of the last response, for a call that got one
C22_Status == IF run.response.ok THEN StatusOf(run.response.data) ELSE "non-2xx"

\* C22: pollJob ends with a success result as soon as a response gives the
\* status completed, success or done, with a failure result as soon as one
\* gives failed or error, with a thrown error on a non-2xx response, and
\* otherwise with the failure result "Job timed out" once maxWaitMs has
\* elapsed.
C22_Result ==
    (C22_Polling /\ (run.requests > 0 \/ run.pc = "returned")) =>
        IF run.requests > 0 /\ run.pc \in {"returned", "threw"}
        THEN CASE C22_Status \in {"completed", "success", "done"} ->
                      run.pc = "returned" /\ run.result.success = TRUE
               [] C22_Status \in {"failed", "error"} ->
                      run.pc = "returned" /\ run.result.success = FALSE
               [] C22_Status = "non-2xx" -> run.pc = "threw"
               [] OTHER ->
                      /\ run.pc = "returned"
                      /\ run.result = [success |-> FALSE, jobId |-> run.jobId,
                                       error |-> TimedOut(run.maxWaitMs)]
                      /\ now - run.start >= run.maxWaitMs
        ELSE IF run.pc = "returned"
        THEN /\ run.result = [success |-> FALSE, jobId |-> run.jobId,
                              error |-> TimedOut(run.maxWaitMs)]
             /\ now - run.start >= run.maxWaitMs
        ELSE run.requests > 1 =>
                 C22_Status \notin {"completed", "success", "done", "failed", "error",
                                    "non-2xx"}

\* the same for responses that carry no success field of their own
C22_ResultOfPlainData ==
    ("success" \notin DOMAIN run'.response.data) => C22_Result'

C22_PlainResponses == [][C22_ResultOfPlainData]_vars

\* a status request starts before maxWaitMs has elapsed and, after another
\* one, not before the interval has passed since that one's response
C22_Request ==
    run'.requests # run.requests =>
        /\ now' - run'.start < run'.maxWaitMs
        /\ run.requests > 0 => now' - run.slept >= pollInterval

C22_Timing == [][run.pc # "idle" => C22_Request]_vars

\* pollJob, once called, ends
C22_Ends == (run.pc # "idle") ~> (run.pc \in {"returned", "threw", "exited"})

\* -------------------------------------------------------- polymarket.mjs
\* Credentials are numbered in the order the provider hands them out; 0 is
\* no credentials: _clientCache null, polymarket-creds.json absent.
NoError == [message |-> "none"]

\* err?.response?.status || err?.status, 0 for undefined
ErrStatus(err) ==
    IF "response" \in DOMAIN err /\ err.response.status # 0 THEN err.response.status
    ELSE IF "status" \in DOMAIN err THEN err.status
    ELSE 0

\* getPolyClient: the cached client when there is one; otherwise requireEnv,
\* the credentials of the file or, without a usable file, newly derived ones
\* (derive is what createOrDeriveApiKey does when asked), written to the file.
getPolyClient(r, derive) ==
    IF r.cache # 0 THEN [r |-> r, exited |-> FALSE, err |-> NoError]
    ELSE IF requireEnv(r.env, "POLYMARKET_PRIVATE_KEY").exited
    THEN [r |-> r, exited |-> TRUE, err |-> NoError]
    ELSE IF r.file # 0
    THEN [r |-> [r EXCEPT !.cache = r.file], exited |-> FALSE, err |-> NoError]
    ELSE IF ~derive.ok THEN [r |-> r, exited |-> FALSE, err |-> derive.err]
    ELSE [r |-> [r EXCEPT !.cache = r.minted + 1, !.file = r.minted + 1,
                          !.minted = r.minted + 1,
                          !.derived = Append(@, r.minted + 1)],
          exited |-> FALSE, err |-> NoError]

\* a resetClient that leaves polymarket-creds.json in place
resetClientKeepCreds(r) ==
    [r EXCEPT !.cache = 0,
              !.resets = Append(@, [cache |-> 0, file |-> r.file, minted |-> r.minted])]

\* resetClient: _clientCache = null and unlinkSync of the credentials file
resetClient(r) ==
    [r EXCEPT !.cache = 0, !.file = 0,
              !.resets = Append(@, [cache |-> 0, file |-> 0, minted |-> r.minted])]

\* One run of the wrapped function: await getPolyClient(), then the call of
\* the CLOB client, which gives a value or throws.
Fn(r, derive, op) ==
    LET g == getPolyClient(r, derive)
        ran == [g.r EXCEPT !.runs = @ + 1]
    IN  IF g.exited THEN [r |-> ran, exited |-> TRUE, err |-> NoError]
        ELSE IF g.err # NoError THEN [r |-> ran, exited |-> FALSE, err |-> g.err]
        ELSE [r |-> [ran EXCEPT !.used = Append(@, g.r.cache)],
              exited |-> FALSE, err |-> IF op.ok THEN NoError ELSE op.err]

\* the catch block of withAuthRetry up to its await
Caught(r, err) ==
    IF ErrStatus(err) = 401 \/ ErrStatus(err) = 403
    THEN [resetClient(r) EXCEPT !.pc = "rederive"]
    ELSE [r EXCEPT !.pc = "threw", !.thrown = err]

\* withAuthRetry after a run of fn has settled
Settled(f, retry) ==
    IF f.exited THEN [f.r EXCEPT !.pc = "exited"]
    ELSE IF f.err = NoError THEN [f.r EXCEPT !.pc = "returned"]
    ELSE LET failed == [f.r EXCEPT !.errors = Append(@, f.err)]
         IN  IF retry THEN Caught(failed, f.err)
             ELSE [failed EXCEPT !.pc = "threw", !.thrown = f.err]

\* ------------------------------------------------- withAuthRetry, called
Errs ==
    {[response |-> [status |-> 401]], [response |-> [status |-> 403]],
     [response |-> [status |-> 500], status |-> 401],
     [response |-> [status |-> 0], status |-> 403],
     [status |-> 401], [status |-> 429], [message |-> "network"]}

Settlements == {[ok |-> TRUE, err |-> NoError]} \cup {[ok |-> FALSE, err |-> e] : e \in Errs}

PolyEnvs == {{}, {"POLYMARKET_PRIVATE_KEY"}}

\* withAuthRetry(fn) up to the first await: fn has been called.  The client
\* may be cached from an earlier call of this process and the file may hold
\* the credentials of an earlier process.
WithAuthRetry ==
    \E env \in PolyEnvs, file \in {0, 1}, cache \in {0, 1} :
        /\ run.pc = "idle"
        /\ cache # 0 => "POLYMARKET_PRIVATE_KEY" \in env
        /\ run' = [pc |-> "first", env |-> env, cache |-> cache, file |-> file,
                   minted |-> 1, derived |-> <<>>, runs |-> 0, used |-> <<>>,
                   errors |-> <<>>, resets |-> <<>>, thrown |-> NoError]
        /\ UNCHANGED <<fs, now, ret, calls, scanLog, tagged, proc, scan>>

\* the first run of fn settles; on 401 or 403 the client is reset
FirstSettled ==
    \E derive \in Settlements, op \in Settlements :
        /\ run.pc = "first"
        /\ run' = Settled(Fn(run, derive, op), TRUE)
        /\ UNCHANGED <<fs, now, ret, calls, scanLog, tagged, proc, scan>>

\* the getPolyClient of line 266 settles and fn is called again
Rederived ==
    \E derive \in Settlements :
        /\ run.pc = "rederive"
        /\ LET g == getPolyClient(run, derive)
           IN  run' = IF g.exited THEN [g.r EXCEPT !.pc = "exited"]
                      ELSE IF g.err # NoError
                      THEN [g.r EXCEPT !.pc = "threw", !.thrown = g.err]
                      ELSE [g.r EXCEPT !.pc = "second"]
        /\ UNCHANGED <<fs, now, ret, calls, scanLog, tagged, proc, scan>>

\* the second run of fn settles
SecondSettled ==
    \E derive \in Settlements, op \in Settlements :
        /\ run.pc = "second"
        /\ run' = Settled(Fn(run, derive, op), FALSE)
        /\ UNCHANGED <<fs, now, ret, calls, scanLog, tagged, proc, scan>>

AuthInit == fs = {} /\ Fresh

AuthNext ==
    \/ WithAuthRetry
    \/ FirstSettled
    \/ Rederived
    \/ SecondSettled

SpecAuth == AuthInit /\ [][AuthNext]_vars

\* ------------------------------------------------------------------ C23
C23_AuthFailure(err) == ErrStatus(err) \in {401, 403}

out(tag, error, message) ==
    [to |-> "stdout", json |-> TRUE, error |-> error, message |-> message, tag |-> tag]

\* console.error(text)
consoleError(tag) ==
    [to |-> "stderr", json |-> FALSE, error |-> "none", message |-> FALSE, tag |-> tag]

\* console.error(JSON.stringify({ error: true, message, ... }, null, 2))
errorJson(tag) ==
    [to |-> "stderr", json |-> TRUE, error |-> "true", message |-> TRUE, tag |-> tag]

\* usage(): console.log of the help text
usage == [to |-> "stdout", json |-> FALSE, error |-> "none", message |-> FALSE,
          tag |-> "help"]

\* process.exit(code) after the writes
Exit(writes, code, why) == [writes |-> writes, code |-> code, threw |-> FALSE, why |-> why]

\* the command returns and the process ends with nothing left to do
Return(writes, why) == [writes |-> writes, code |-> 0, threw |-> FALSE, why |-> why]

\* the command throws, or a promise it awaits rejects
Throw(writes) == [writes |-> writes, code |-> 0, threw |-> TRUE, why |-> "provider"]

\* requireEnv(name, hint) of a missing variable, after the writes
Missing(writes) == Exit(Append(writes, errorJson("env")), 1, "env")

normalizeChain(c) ==
    CASE c = "base" -> "base"
      [] c \in {"sol", "solana", "SOL"} -> "sol"
      [] OTHER -> ""

cmdPool(args, w) ==
    LET chain == normalizeChain(args.chain)
    IN  IF chain = "" \/ args.addr = "" THEN Exit(<<consoleError("usage")>>, 1, "usage")
        ELSE IF chain = "base"
        THEN IF w.info = "throw" THEN Throw(<<>>)
             ELSE Return(<<out("info", "none", FALSE)>>, "ok")
        ELSE CASE w.account = "throw" -> Throw(<<>>)
               [] w.account = "missing" ->
                      Exit(<<out("Account not found", "true", TRUE)>>, 1, "notFound")
               [] w.account = "unknown" ->
                      Exit(<<out("Unknown program owner", "true", TRUE)>>, 1, "notFound")
               [] OTHER -> IF w.info = "throw" THEN Throw(<<>>)
                           ELSE Return(<<out("info", "none", FALSE)>>, "ok")

cmdPump(args, w) ==
    IF args.addr = "" THEN Exit(<<consoleError("usage")>>, 1, "usage")
    ELSE IF w.info = "throw" THEN Throw(<<>>)
    ELSE Return(<<out("curve", "none", FALSE)>>, "ok")

cmdPrice(args, w) ==
    LET chain == normalizeChain(args.chain)
        noPools == Return(<<out("No pools found", "text", FALSE)>>, "notFound")
        price == Return(<<out("price", "none", FALSE)>>, "ok")
    IN  IF chain = "" \/ args.addr = "" THEN Exit(<<consoleError("usage")>>, 1, "usage")
        ELSE IF chain = "base"
        THEN CASE w.pools = "throw" -> Throw(<<>>)
               [] w.pools = "none" -> noPools
               [] OTHER -> IF w.info = "throw" THEN Throw(<<>>) ELSE price
        ELSE IF w.pump = "curve" THEN price
        ELSE IF w.pools = "throw" \/ w.jup = "throw" THEN Throw(<<>>)
        ELSE IF w.pools = "none" THEN IF w.jup = "none" THEN noPools ELSE price
        ELSE IF w.pools = "pumpOnly"
        THEN IF w.pump = "throw" THEN Throw(<<>>) ELSE price
        ELSE IF w.info = "throw"
        THEN IF w.jup = "price" THEN price
             ELSE Return(<<out("Could not fetch pool info", "text", FALSE)>>, "notFound")
        ELSE price

\* cmdBuy as far as it writes: the journal is that of cmdBuy above
cmdBuyWrites(args, w) ==
    LET chain == normalizeChain(args.chain)
        swapping == <<out("swapping", "none", FALSE)>>
        result == Append(swapping,
                         out("result", IF w.swap = "failed" /\ chain = "base"
                                       THEN "text" ELSE "none", FALSE))
        journaled == IF w.journal = "throw" THEN result
                     ELSE Append(result, out("autoJournal", "none", FALSE))
    IN  IF chain = "" \/ args.addr = "" \/ args.amount = ""
        THEN Exit(<<consoleError("usage"), consoleError("amount")>>, 1, "usage")
        ELSE IF chain = "base" /\ args.amount = "abc" THEN Throw(<<>>)
        ELSE CASE w.swap = "env" -> Missing(swapping)
               [] w.swap = "throw" -> Throw(swapping)
               [] w.swap = "failed" -> Return(journaled, "reverted")
               [] OTHER -> Return(journaled, "ok")

\* cmdScan as far as it writes
cmdScanWrites(args, w) ==
    LET chain == normalizeChain(args.chain)
        scanning == <<out("scanning", "none", TRUE)>>
    IN  IF chain # "" /\ chain # "sol"
        THEN Exit(<<consoleError("Solana-only"), consoleError("usage")>>, 1, "usage")
        ELSE CASE w.scan = "env" -> Missing(scanning)
               [] w.scan = "throw" -> Throw(scanning)
               [] OTHER -> Return(Append(scanning, out("result", "none", FALSE)), "ok")

\* main: the dispatch and the catch of lines 142 to 157
main(command, process) ==
    IF command \in {"", "help", "--help", "-h"} THEN Exit(<<usage>>, 0, "help")
    ELSE IF command \notin {"pool", "pump", "price", "buy", "scan"}
    THEN Exit(<<consoleError("Unknown command"), usage>>, 1, "unknown")
    ELSE IF process.threw
    THEN Exit(Append(process.writes, errorJson("caught")), 1, process.why)
    ELSE process

\* ---------------------------------------------------------- moon, invoked
ChainArgs == {"", "base", "sol", "solana", "eth"}
Addrs == {"", "A"}
AmountArgs == {"", "1", "abc"}

\* what the providers answer
Infos == {"throw", "found"}
Accounts == {"throw", "missing", "unknown", "owned"}
Pools == {"throw", "none", "pumpOnly", "dex"}
Quotes == {"throw", "none", "price"}
Curves == {"throw", "curve", "graduated"}
Swaps == {"env", "throw", "failed", "ok"}

Invoked(command, args, w, process) ==
    [pc |-> "exited", command |-> command, args |-> args, world |-> w,
     writes |-> main(command, process).writes, code |-> main(command, process).code,
     why |-> main(command, process).why]

\* moon, moon help, moon <no such command>
MainHelp ==
    \E command \in {"", "help", "-h", "swap"} :
        /\ run.pc = "idle"
        /\ run' = Invoked(command, <<>>, <<>>, Return(<<>>, "ok"))
        /\ UNCHANGED <<fs, now, ret, calls, scanLog, tagged, proc, scan>>

MainPool ==
    \E chain \in ChainArgs, addr \in Addrs, account \in Accounts, info \in Infos :
        /\ run.pc = "idle"
        /\ LET args == [chain |-> chain, addr |-> addr]
               w == [account |-> account, info |-> info]
           IN  run' = Invoked("pool", args, w, cmdPool(args, w))
        /\ UNCHANGED <<fs, now, ret, calls, scanLog, tagged, proc, scan>>

MainPump ==
    \E addr \in Addrs, info \in Infos :
        /\ run.pc = "idle"
        /\ LET args == [addr |-> addr]
               w == [info |-> info]
           IN  run' = Invoked("pump", args, w, cmdPump(args, w))
        /\ UNCHANGED <<fs, now, ret, calls, scanLog, tagged, proc, scan>>

MainPrice ==
    \E chain \in ChainArgs, addr \in Addrs, pools \in Pools, info \in Infos,
       jup \in Quotes, pump \in Curves :
        /\ run.pc = "idle"
        /\ LET args == [chain |-> chain, addr |-> addr]
               w == [pools |-> pools, info |-> info, jup |-> jup, pump |-> pump]
           IN  run' = Invoked("price", args, w, cmdPrice(args, w))
        /\ UNCHANGED <<fs, now, ret, calls, scanLog, tagged, proc, scan>>

MainBuy ==
    \E chain \in ChainArgs, addr \in Addrs, amount \in AmountArgs, swap \in Swaps,
       journal \in {"ok", "throw"} :
        /\ run.pc = "idle"
        /\ LET args == [chain |-> chain, addr |-> addr, amount |-> amount]
               w == [swap |-> swap, journal |-> journal]
           IN  run' = Invoked("buy", args, w, cmdBuyWrites(args, w))
        /\ UNCHANGED <<fs, now, ret, calls, scanLog, tagged, proc, scan>>

MainScan ==
    \E chain \in ChainArgs, outcome \in {"env", "throw", "ok"} :
        /\ run.pc = "idle"
        /\ LET args == [chain |-> chain]
               w == [scan |-> outcome]
           IN  run' = Invoked("scan", args, w, cmdScanWrites(args, w))
        /\ UNCHANGED <<fs, now, ret, calls, scanLog, tagged, proc, scan>>

MainInit == fs = {} /\ Fresh

MainNext ==
    \/ MainHelp
    \/ MainPool
    \/ MainPump
    \/ MainPrice
    \/ MainBuy
    \/ MainScan

SpecMain == MainInit /\ [][MainNext]_vars

\* ------------------------------------------------------------------ C24
C24_Objects ==
    SelectSeq(run.writes, LAMBDA x : x.to = "stdout" /\ x.json)

C24_OnlyObject ==
    /\ Len(C24_Objects) = 1
    /\ \A i \in 1..Len(run.writes) : run.writes[i].to = "stdout" => run.writes[i].json

\* C24: every invocation of a command that succeeds writes exactly one JSON
\* object to standard output.
C24_OneObject == (run.pc = "exited" /\ run.why = "ok") => C24_OnlyObject

\* the same for the research commands pool, pump and price alone
C24_ResearchCommands ==
    (run.pc = "exited" /\ run.why = "ok" /\ run.command \in {"pool", "pump", "price"}) =>
        C24_OnlyObject

\* ------------------------------------------------------------------ C25
C25_Failures == {"usage", "env", "notFound", "provider"}

C25_Reported ==
    /\ run.code # 0
    /\ run.writes # <<>>
    /\ LET last == run.writes[Len(run.writes)]
       IN  last.to = "stderr" /\ last.json /\ last.error = "true" /\ last.message
    /\ \A i \in 1..Len(run.writes) :
           run.writes[i].to = "stdout" => run.writes[i].error = "none"

\* C25: every failure of a command (missing or invalid argument, missing
\* environment variable, account or pool not found, provider error) ends
\* with a JSON object carrying an error flag and a message on standard error
\* and with a non-zero exit code, and is not reported on standard output or
\* with exit code 0.
C25_ErrorOnStderr == (run.pc = "exited" /\ run.why \in C25_Failures) => C25_Reported

\* the same for a missing environment variable and a provider error alone
C25_EnvOrProvider ==
    (run.pc = "exited" /\ run.why \in {"env", "provider"}) => C25_Reported

\* ------------------------------------------------------------------ C26
\* transaction k was fetched and its post-transaction balances hold the mint
C26_Holds(k, mint) ==
    LET tx == ParsedTransaction(scan.pattern, k)
    IN  /\ tx.status = "fulfilled"
        /\ tx.value # Null
        /\ "meta" \in DOMAIN tx.value
        /\ "postTokenBalances" \in DOMAIN tx.value.meta
        /\ \E j \in 1..Len(tx.value.meta.postTokenBalances) :
               tx.value.meta.postTokenBalances[j].mint = mint

\* the first signature, in the order discovered, whose transaction holds it
C26_First(mint) ==
    CHOOSE k \in 1..Len(scan.sigs) :
        /\ C26_Holds(k, mint)
        /\ \A earlier \in 1..(k - 1) : ~C26_Holds(earlier, mint)

\* the block time of transaction k, the one of its signature when it has none
C26_BlockTime(k) ==
    LET tx == ParsedTransaction(scan.pattern, k).value
    IN  IF "blockTime" \in DOMAIN tx THEN tx.blockTime ELSE scan.sigs[k].blockTime

\* C26: the map extractMintsFromSignatures builds never contains the
\* wrapped-SOL mint, has each mint once, and holds for each mint the block
\* time, venue and signature of the first transaction, in the order of the
\* discovered signatures, whose post-transaction balances contain it; a
\* later transaction does not overwrite it and a failed fetch adds nothing
\* and does not end the extraction.
C26_FirstSeen ==
    scan.pc \in {"extract", "analyze", "done"} =>
        /\ \A i \in 1..Len(scan.mints) :
              /\ scan.mints[i].mint # WSOL
              /\ \A j \in 1..Len(scan.mints) :
                     scan.mints[j].mint = scan.mints[i].mint => j = i
              /\ \E k \in 1..Len(scan.sigs) : C26_Holds(k, scan.mints[i].mint)
              /\ LET k == C26_First(scan.mints[i].mint)
                 IN  /\ scan.mints[i].signature = scan.sigs[k].signature
                     /\ scan.mints[i].dex = scan.sigs[k].dex
                     /\ scan.mints[i].createdAt = C26_BlockTime(k)
        /\ scan.pc = "extract" =>
              \A k \in 1..scan.i : \A m \in 1..Len(MintNames) :
                  C26_Holds(k, MintNames[m]) => HasMint(scan.mints, MintNames[m])

\* every transaction names its own mint and the next one's: the second mint
\* is held under the first signature although the second transaction has it
C26_Witness ==
    /\ scan.pc = "analyze" /\ scan.pattern = "pairs" /\ Len(scan.sigs) >= 2
    /\ \E i \in 1..Len(scan.mints) :
           /\ scan.mints[i].mint = MintNames[2]
           /\ scan.mints[i].signature = scan.sigs[1].signature
    /\ C26_Holds(2, MintNames[2])

\* fetches failed and the extraction went on with the others
C26_WitnessFailedFetch ==
    /\ scan.pc = "analyze" /\ scan.pattern = "holes"
    /\ ParsedTransaction("holes", 1).status = "rejected"
    /\ scan.mints # <<>>

\* ------------------------------------------------------------------ C27
\* the safety audit getTokenSafety gave for the token analyzed j-th
C27_Audit(j) == Profile(scan.step, j).safety

\* C27: every token scan returns had its safety audit fetched successfully,
\* and that audit reported no critical risk; a token whose audit could not
\* be fetched is never returned.
C27_AuditedOnly ==
    (scan.pc = "done" /\ "returned" \in DOMAIN scan.result) =>
        \A r \in 1..Len(scan.result.tokens) :
            \A j \in 1..Len(scan.analyzed) :
                scan.analyzed[j].mint = scan.result.tokens[r].mint =>
                    /\ C27_Audit(j).status = "fulfilled"
                    /\ C27_Audit(j).value.riskCount = Whole(0)

\* the tokens returned whose audit was fetched carry no critical risk
C27_NoCriticalRisk ==
    (scan.pc = "done" /\ "returned" \in DOMAIN scan.result) =>
        \A r \in 1..Len(scan.result.tokens) :
            \A j \in 1..Len(scan.analyzed) :
                (/\ scan.analyzed[j].mint = scan.result.tokens[r].mint
                 /\ C27_Audit(j).status = "fulfilled") =>
                    C27_Audit(j).value.riskCount = Whole(0)

\* ------------------------------------------------- calc.mjs: goal progress
\* (pos.tokenAmount || 0) * (pos.currentPrice || pos.price || 0)
ValueOf(pos) ==
    Times(OrZero(Get(pos, "tokenAmount")),
          IF ~Not(Get(pos, "currentPrice")) THEN pos.currentPrice
          ELSE OrZero(Get(pos, "price")))

\* pathToGoal.sort((a, b) => (b.currentValue || 0) - (a.currentValue || 0))
RECURSIVE SortByValue(_)
SortByValue(list) ==
    IF list = <<>> THEN <<>>
    ELSE LET front == SortByValue(SubSeq(list, 1, Len(list) - 1))
             last == list[Len(list)]
             keep == {j \in 1..Len(front) :
                         ~Less(front[j].currentValue, last.currentValue)}
             at == IF keep = {} THEN 0 ELSE CHOOSE j \in keep : \A l \in keep : l <= j
         IN  SubSeq(front, 1, at) \o <<last>> \o SubSeq(front, at + 1, Len(front))

calcGoalProgress(positions, targetUsd) ==
    IF Len(positions) = 0
    THEN [currentValue |-> Whole(0), progressPct |-> Whole(0),
          remainingUsd |-> targetUsd, targetUsd |-> targetUsd, pathToGoal |-> <<>>]
    ELSE LET values == [i \in 1..Len(positions) |-> ValueOf(positions[i])]
             currentValue == Sum(values)
             path == [i \in 1..Len(positions) |->
                         [mint |-> positions[i].mint, currentValue |-> values[i],
                          multiplierNeeded |->
                              IF Positive(values[i])
                              THEN [number |-> Over(targetUsd, values[i])]
                              ELSE [text |-> "N/A"],
                          pctOfGoal |-> Times(Over(values[i], targetUsd), Whole(100))]]
         IN  [currentValue |-> currentValue,
              progressPct |-> Times(Over(currentValue, targetUsd), Whole(100)),
              remainingUsd |-> Minus(targetUsd, currentValue),
              targetUsd |-> targetUsd, pathToGoal |-> SortByValue(path)]

\* step 2 of cmdReview for one open entry: jup is what getJupiterPrice gave
Enriched(entry, jup) ==
    [id |-> entry.id, mint |-> entry.mint, entryPrice |-> Get(entry, "price"),
     currentPrice |-> IF ~Not(Get(jup, "priceUsd")) THEN jup.priceUsd
                      ELSE Get(entry, "price"),
     amount |-> Get(entry, "amount")]

\* step 4 of cmdReview: tokenAmount: e.amount
positionsForGoal(enrichedOpen, openEntries) ==
    [i \in 1..Len(enrichedOpen) |->
        [mint |-> enrichedOpen[i].mint, tokenAmount |-> enrichedOpen[i].amount,
         currentPrice |-> enrichedOpen[i].currentPrice,
         price |-> enrichedOpen[i].entryPrice]]

\* the goal object cmdReview prints, from the open entries, the prices
\* looked up for them and config.goalUsd
cmdReview(openEntries, prices, goalUsd) ==
    LET enrichedOpen == [i \in 1..Len(openEntries) |->
                            Enriched(openEntries[i], prices[i])]
    IN  Spread([targetUsd |-> goalUsd],
               calcGoalProgress(positionsForGoal(enrichedOpen, openEntries), goalUsd))

\* ----------------------------------------------------- moon review, run
MaxOpen == 2

\* open entries as journal add (with tokenAmount = amount / price) and the
\* auto-journal of buy (without tokenAmount, price null on Base) write them
OpenShapes ==
    {[id |-> "j_1", mint |-> "A", amount |-> Whole(100), price |-> Frac(1, 2),
      tokenAmount |-> Whole(200)],
     [id |-> "j_2", mint |-> "B", amount |-> Whole(5), price |-> Whole(1),
      tokenAmount |-> Whole(5)],
     [id |-> "j_3", mint |-> "C", amount |-> Whole(3), price |-> Whole(0),
      tokenAmount |-> Whole(0)],
     [id |-> "j_4", mint |-> "D", amount |-> Whole(1), price |-> Whole(2)],
     [id |-> "j_5", mint |-> "E", amount |-> Whole(1), price |-> Null]}

\* what getJupiterPrice(...).catch(() => null) resolves to
JupPrices == {Null, [priceUsd |-> Whole(4)]}

GoalInputs == {Whole(500), Whole(1000000)}

CmdReview ==
    \E n \in 0..MaxOpen :
    \E openEntries \in [1..n -> OpenShapes], prices \in [1..n -> JupPrices],
       goalUsd \in GoalInputs :
        /\ ret.op = NoCall.op
        /\ ret' = [op |-> "review", arg |-> <<openEntries, prices, goalUsd>>,
                   value |-> cmdReview(openEntries, prices, goalUsd), threw |-> FALSE]
        /\ UNCHANGED Rest

ReviewInit == fs = {} /\ Fresh

ReviewNext == CmdReview

SpecReview == ReviewInit /\ [][ReviewNext]_vars

\* ------------------------------------------------------------------ C28
\* the current price of the entry, the entry price when none was found
C28_Price(entry, jup) ==
    IF ~Not(Get(jup, "priceUsd")) THEN jup.priceUsd ELSE OrZero(Get(entry, "price"))

\* the sum over the open entries of token amount times price
C28_Value(openEntries, prices) ==
    Sum([i \in 1..Len(openEntries) |->
            Times(OrZero(Get(openEntries[i], "tokenAmount")),
                  C28_Price(openEntries[i], prices[i]))])

C28_Figures ==
    ret.op = "review" =>
        /\ ret.value.progressPct =
               Times(Over(ret.value.currentValue, ret.arg[3]), Whole(100))
        /\ ret.value.remainingUsd = Minus(ret.arg[3], ret.value.currentValue)
        /\ ret.arg[1] = <<>> =>
               ret.value.progressPct = Whole(0) /\ ret.value.remainingUsd = ret.arg[3]

\* C28: the goal progress of review values each open entry at its
\* tokenAmount times the current price, or the entry price when there is no
\* current price; currentValue is the sum of these values, progressPct is
\* currentValue / goalUsd x 100 and remainingUsd is goalUsd - currentValue,
\* so that without open positions progressPct is 0 and remainingUsd the goal.
C28_GoalProgress ==
    ret.op = "review" =>
        /\ ret.value.currentValue = C28_Value(ret.arg[1], ret.arg[2])
        /\ C28_Figures

\* ------------------------------------------------------------------ C29
\* the entries of the journal that carry the id
C29_Carrying(dir, id) == {i \in 1..Len(Journal(dir)) : Journal(dir)[i].id = id}

\* an addJournalEntry whose Date.now() is later than every id given out so
\* far leaves the ids distinct if they were
C29_LaterMillisecond ==
    [][(ret'.op = "addJournalEntry" /\ ret' # ret
          /\ \A i \in 1..Len(Journal(fs)) :
                 /\ Cardinality(C29_Carrying(fs, Journal(fs)[i].id)) = 1
                 /\ Journal(fs)[i].id < ret'.value.id)
       => \A i \in 1..Len(Journal(fs')) :
              Cardinality(C29_Carrying(fs', Journal(fs')[i].id)) = 1]_vars

\* C29: after any sequence of addJournalEntry calls, two calls within the
\* same millisecond included, no two journal entries have the same id, and
\* the id addJournalEntry returned is the id of exactly one entry.
C29_UniqueIds ==
    /\ \A i \in 1..Len(Journal(fs)) :
           Cardinality(C29_Carrying(fs, Journal(fs)[i].id)) = 1
    /\ ret.op = "addJournalEntry" => Cardinality(C29_Carrying(fs, ret.value.id)) = 1

\* ------------------------------------------------------------------ C30
\* a buy or sell command has just run and its swap ended as given
C30_Swapped(op, swap) == ret'.op = op /\ ret'.arg[3] = swap /\ fs' # fs

\* the place in the journal of the first open buy of the token, 0 if none
C30_OpenBuy(dir, token) ==
    LET at == {i \in 1..Len(Journal(dir)) :
                  /\ Journal(dir)[i].status = "open"
                  /\ Journal(dir)[i].mint = token
                  /\ Journal(dir)[i].type = "buy"}
    IN  IF at = {} THEN 0 ELSE CHOOSE i \in at : \A j \in at : i <= j

\* when a sell succeeds in a journal of distinct ids, the first open buy of
\* the token is closed, a closed sell entry is appended and no other entry
\* changes
C30_SellStep ==
    (C30_Swapped("sell", "ok")
       /\ \A i \in 1..Len(Journal(fs)) :
              Cardinality(C29_Carrying(fs, Journal(fs)[i].id)) = 1) =>
        LET before == Journal(fs)
            after == Journal(fs')
            n == Len(before)
            token == ret'.arg[2]
            buy == C30_OpenBuy(fs, token)
        IN  /\ Len(after) = n + 1
            /\ after[n + 1].type = "sell" /\ after[n + 1].mint = token
            /\ after[n + 1].status = "closed"
            /\ \A i \in 1..n :
                  IF i = buy
                  THEN after[i].status = "closed" /\ after[i].id = before[i].id
                  ELSE after[i] = before[i]

C30_SellSucceeded == [][C30_SellStep]_vars

C30_FailedStep ==
    (ret'.op \in {"buy", "sell"} /\ ret'.arg[3] = "failed") => Journal(fs') = Journal(fs)

\* C30: a buy or sell command changes the journal only when its swap
\* succeeded: after a swap result with success = false no buy entry is added,
\* no open buy of the token is closed and no sell entry is added; after a
\* sell that succeeded the open buy of the token is closed and a closed sell
\* entry is appended.
C30_OnlyAfterSuccess == [][C30_FailedStep /\ C30_SellStep]_vars

====
